---- MODULE Spec2Model ----
(***************************************************************************)
(* A model of the streaming relay and the hybrid envelope cipher of the    *)
(* mongython backend (api/chat.py, utils/server_encryption.py).            *)
(*                                                                         *)
(* Text is a sequence of code points, bytes are 0..255, a base64 string is *)
(* a sequence of symbols: 0..63 an alphabet index, 64 the pad '=', 65 a    *)
(* character outside the alphabet.  The asymmetric and symmetric ciphers   *)
(* are small keyed arithmetic stand-ins with the same interface and the    *)
(* same failure checks as RSA-OAEP and AES-GCM.                            *)
(***************************************************************************)
EXTENDS Integers, Sequences, FiniteSets, TLC

VARIABLES
    pc,                  \* position of the stream_wrapper generator
    args,                \* the arguments stream_wrapper was called with
    accumulated_content, \* stream_wrapper local
    has_content,         \* stream_wrapper local
    received,            \* chunks pulled from the upstream stream so far
    upstream_end,        \* how the upstream stream ended: "open", "exhausted", "raised"
    emitted,             \* units yielded to the client so far
    propagated,          \* the exception that left the generator, or None
    tasks,               \* background_tasks: scheduled save_streamed_message calls
    messages,            \* the Message collection
    conversations,       \* ids of the documents of the Conversation collection
    touched,             \* number of conversation.save() timestamp updates
    next_id,             \* the next fresh message id (uuid4)
    c_pc,                \* cipher run: "init", "encrypted", "decrypted"
    c_in,                \* cipher run: plaintext and recipient
    c_env,               \* cipher run: envelope produced by encrypt_for_client
    c_out,               \* cipher run: outcome of the decrypt call
    c_tamper,            \* cipher run: the change made to the envelope in transit
    c_log,               \* the encrypt_for_client calls made so far, with their outcomes
    c_calls,             \* the decrypt_from_client calls made so far, with their outcomes
    e_pc,                \* endpoint run: "idle", "answered"
    e_request,           \* endpoint run: the request handled
    e_response,          \* endpoint run: the HTTP response
    e_upstream,          \* endpoint run: the generation calls made, each its message list
    user,                \* the User document of current_user
    u_log,               \* the key uploads handled so far, with their responses
    d_run,               \* delete_conversation run: position, requester, target, status
    t_run,               \* get_message_thread run: position, request, current_id, thread
    keys,                \* server_encryption: its _private_key and _public_key
    key_files,           \* keys/server_private_key.pem and keys/server_public_key.pem
    k_log                \* the calls made on server_encryption so far

vars == <<pc, args, accumulated_content,
          has_content, received, upstream_end, emitted, propagated, tasks, messages,
          conversations, touched, next_id, c_pc, c_in, c_env, c_out, c_tamper,
          c_log, c_calls, e_pc, e_request, e_response, e_upstream, user, u_log,
          d_run, t_run, keys, key_files, k_log>>

relayVars == <<pc, args, accumulated_content,
               has_content, received, upstream_end, emitted, propagated, tasks, messages,
               conversations, touched, next_id>>

cipherVars == <<c_pc, c_in, c_env, c_out, c_tamper, c_log, c_calls>>

endpointVars == <<e_pc, e_request, e_response, e_upstream, user, u_log, d_run, t_run>>

serverVars == <<keys, key_files, k_log>>

None == "None"

-----------------------------------------------------------------------------
(* Bounds *)

\* longest upstream chunk sequence explored
MaxChunks == 3

\* most encrypt_for_client calls in a row explored
MaxCalls == 3

\* most decrypt_from_client calls in a row explored
MaxDecrypts == 2

\* most messages in one request explored
MaxMessages == 2

\* most direct save_streamed_message calls explored
MaxSaves == 2

\* most key uploads in a row explored
MaxUploads == 3

\* most calls on server_encryption in a row explored
MaxRequests == 3

-----------------------------------------------------------------------------
(* Program constants *)

AesKeyLen == 32
Ed25519KeyLen == 32
IvLen == 16
TagLen == 16

-----------------------------------------------------------------------------
(* Outcomes of a call: a value, or the exception it raised *)

Ok(v) == [ok |-> TRUE, val |-> v, err |-> ""]

Raise(e) == [ok |-> FALSE, val |-> <<>>, err |-> e]

\* str(e) of an exception written "Type: message": the message alone, which
\* is empty for an exception raised without one (InvalidTag)
RECURSIVE str(_)
str(e) ==
    IF Len(e) < 2 THEN ""
    ELSE IF SubSeq(e, 1, 2) = ": " THEN SubSeq(e, 3, Len(e))
    ELSE str(Tail(e))

-----------------------------------------------------------------------------
(* str.encode() / bytes.decode(): UTF-8 *)

IsSurrogate(cp) == cp >= 55296 /\ cp <= 57343

Utf8Char(cp) ==
    IF cp < 128 THEN <<cp>>
    ELSE IF cp < 2048 THEN <<192 + (cp \div 64), 128 + (cp % 64)>>
    ELSE <<224 + (cp \div 4096), 128 + ((cp \div 64) % 64), 128 + (cp % 64)>>

RECURSIVE Utf8Bytes(_)
Utf8Bytes(s) == IF s = <<>> THEN <<>> ELSE Utf8Char(Head(s)) \o Utf8Bytes(Tail(s))

\* message.encode(): a lone surrogate cannot be encoded
encode(s) ==
    IF \E i \in 1..Len(s) : IsSurrogate(s[i]) THEN Raise("UnicodeEncodeError")
    ELSE Ok(Utf8Bytes(s))

IsCont(b) == b >= 128 /\ b < 192

\* a slip: the bytes are read one character per byte (latin-1)
decode_Latin1(bs) == Ok(bs)

\* decrypted_bytes.decode(): strict; overlong forms and surrogates are rejected
RECURSIVE decode(_)
decode(bs) ==
    IF bs = <<>> THEN Ok(<<>>)
    ELSE LET b == bs[1]
             n == IF b < 128 THEN 1
                  ELSE IF b >= 194 /\ b < 224 THEN 2
                  ELSE IF b >= 224 /\ b < 240 THEN 3
                  ELSE 0
         IN IF n = 0 \/ Len(bs) < n \/ \E i \in 2..n : ~IsCont(bs[i])
            THEN Raise("UnicodeDecodeError: 'utf-8' codec can't decode byte")
            ELSE LET cp == IF n = 1 THEN b
                           ELSE IF n = 2 THEN (b - 192) * 64 + (bs[2] - 128)
                           ELSE (b - 224) * 4096 + (bs[2] - 128) * 64 + (bs[3] - 128)
                     rest == decode(SubSeq(bs, n + 1, Len(bs)))
                 IN IF (n = 3 /\ cp < 2048) \/ IsSurrogate(cp) THEN Raise("UnicodeDecodeError: 'utf-8' codec can't decode byte")
                    ELSE IF rest.ok THEN Ok(<<cp>> \o rest.val)
                    ELSE rest

-----------------------------------------------------------------------------
(* base64.b64encode / base64.b64decode; symbol 64 is the pad '=' *)

\* byte i of bs, or 0 past its end (the zero bits a last group is filled with)
ByteAt(bs, i) == IF i <= Len(bs) THEN bs[i] ELSE 0

\* three bytes give four symbols; a last group of one or two bytes is padded
b64encode(bs) ==
    [j \in 1..(4 * ((Len(bs) + 2) \div 3)) |->
        LET g == 3 * ((j - 1) \div 4)
            b1 == ByteAt(bs, g + 1)
            b2 == ByteAt(bs, g + 2)
            b3 == ByteAt(bs, g + 3)
        IN IF (j - 1) % 4 = 0 THEN b1 \div 4
           ELSE IF (j - 1) % 4 = 1 THEN (b1 % 4) * 16 + (b2 \div 16)
           ELSE IF (j - 1) % 4 = 2
                THEN IF g + 2 > Len(bs) THEN 64 ELSE (b2 % 16) * 4 + (b3 \div 64)
           ELSE IF g + 3 > Len(bs) THEN 64 ELSE b3 % 64]

\* the bytes of the alphabet symbols read so far (a2b_base64 writes a byte
\* as soon as the second, third and fourth symbol of a group arrives)
RECURSIVE SextetBytes(_)
SextetBytes(q) ==
    IF Len(q) < 2 THEN <<>>
    ELSE IF Len(q) = 2 THEN <<q[1] * 4 + (q[2] \div 16)>>
    ELSE IF Len(q) = 3 THEN <<q[1] * 4 + (q[2] \div 16), (q[2] % 16) * 16 + (q[3] \div 4)>>
    ELSE <<q[1] * 4 + (q[2] \div 16), (q[2] % 16) * 16 + (q[3] \div 4),
           (q[3] % 4) * 64 + q[4]>>
         \o SextetBytes(SubSeq(q, 5, Len(q)))

\* binascii.a2b_base64, non-strict: symbols outside the alphabet are
\* discarded, a complete pad sequence ends the input, an unfinished group is
\* an error
RECURSIVE B64Scan(_, _, _, _)
B64Scan(s, i, pads, acc) ==
    LET quad_pos == Len(acc) % 4
    IN IF i > Len(s)
       THEN IF quad_pos = 0 THEN Ok(SextetBytes(acc))
            ELSE IF quad_pos = 1
            THEN Raise("binascii.Error: Invalid base64-encoded string")
            ELSE Raise("binascii.Error: Incorrect padding")
       ELSE IF s[i] = 64
            THEN IF quad_pos >= 2 /\ quad_pos + pads + 1 >= 4
                 THEN Ok(SextetBytes(acc))
                 ELSE B64Scan(s, i + 1, IF quad_pos >= 2 THEN pads + 1 ELSE pads, acc)
       ELSE IF s[i] > 64 THEN B64Scan(s, i + 1, pads, acc)
       ELSE B64Scan(s, i + 1, 0, Append(acc, s[i]))

\* a string of whole groups of alphabet symbols, padded at most in the last
\* one or two places: what b64encode produces
Canonical(s) ==
    /\ Len(s) % 4 = 0
    /\ \A i \in 1..Len(s) : s[i] < 64 \/ (s[i] = 64 /\ i >= Len(s) - 1)
    /\ Len(s) > 0 => (s[Len(s) - 1] = 64 => s[Len(s)] = 64)

\* the scan's result on a canonical string, group by group
DecodeGroups(s) ==
    LET pad == IF Len(s) = 0 THEN 0
               ELSE IF s[Len(s) - 1] = 64 THEN 2
               ELSE IF s[Len(s)] = 64 THEN 1
               ELSE 0
    IN [i \in 1..(3 * (Len(s) \div 4) - pad) |->
          LET g == 4 * ((i - 1) \div 3)
          IN IF (i - 1) % 3 = 0 THEN s[g + 1] * 4 + (s[g + 2] \div 16)
             ELSE IF (i - 1) % 3 = 1 THEN (s[g + 2] % 16) * 16 + (s[g + 3] \div 4)
             ELSE (s[g + 3] % 4) * 64 + s[g + 4]]

b64decode(s) == IF Canonical(s) THEN Ok(DecodeGroups(s)) ELSE B64Scan(s, 1, 0, <<>>)

-----------------------------------------------------------------------------
(* Key material *)

\* the server's own key pair (ServerEncryption._private_key / _public_key)
ServerKeyId == 1

\* a client's RSA key pair, of which the server holds the public half only
ClientKeyId == 2

\* another key pair rsa.generate_private_key can return
FreshKeyId == 3

\* no key object, no key file: Python's None, a path that does not exist
NoKeyId == 0

KeyIds == {ServerKeyId, ClientKeyId}

\* a public key in PEM text form, as get_public_key_pem() produces it
RsaPem(k) == [kind |-> "pem", alg |-> "rsa", id |-> k]

\* PEM text of a public key that is not an RSA key
Ed25519Pem == [kind |-> "pem", alg |-> "ed25519", id |-> 0]

\* text that is not PEM at all (a raw base64 key blob)
RawKeyBlob == [kind |-> "raw", alg |-> "ed25519", id |-> 0]

\* no key: Python's None
NoKey == [kind |-> "none", alg |-> "", id |-> 0]

\* a slip: the key test always passes
Truthy_Always(key) == TRUE

\* truthiness of a key argument (if not user_public_key)
Truthy(key) == key.kind # "none"

\* serialization.load_pem_public_key(pem.encode())
load_pem_public_key(pem) ==
    IF pem.kind = "none" THEN Raise("AttributeError")
    ELSE IF pem.kind # "pem" THEN Raise("ValueError: could not deserialize key data")
    ELSE Ok(pem)

-----------------------------------------------------------------------------
(* os.urandom: the values a draw can give are the seeds' expansions *)

Seeds == {11, 200}

\* the <<key seed, iv seed>> pairs the relay's encryption calls draw
Draws == {<<11, 200>>, <<200, 11>>}

\* a slip: a value fixed when the module is loaded, in place of a draw
urandom_Fixed(n, seed) == [i \in 1..n |-> (11 * i + 3) % 256]

urandom(n, seed) == [i \in 1..n |-> (seed * i + seed \div 3) % 256]

-----------------------------------------------------------------------------
(* RSA-OAEP (SHA-256), as a keyed stand-in: the wrapped key is the key      *)
(* masked with a pad only the private half can remove, preceded by an      *)
(* integrity byte that the unwrap checks                                   *)

RECURSIVE Digest(_, _)
Digest(bs, h) == IF bs = <<>> THEN h ELSE Digest(Tail(bs), (h * 31 + Head(bs) + 1) % 251)

OaepMask(k, i) == (k * 37 + i * (2 * k + 1)) % 256

OaepCheck(k, m) == (k * 101 + Digest(m, k)) % 256

\* public_key.encrypt(data, OAEP)
rsa_encrypt(pub, m) ==
    IF pub.alg # "rsa" THEN Raise("AttributeError")
    ELSE Ok(<<OaepCheck(pub.id, m)>> \o [i \in 1..Len(m) |-> (m[i] + OaepMask(pub.id, i)) % 256])

\* a slip: the unwrap succeeds with whichever key pair fits, not only with
\* the private key held
rsa_decrypt_AnyKey(k, c) ==
    IF Len(c) # AesKeyLen + 1 THEN Raise("ValueError: Ciphertext length must be equal to key size.")
    ELSE LET Unmasked(j) == [i \in 1..(Len(c) - 1) |-> (c[i + 1] + 256 - OaepMask(j, i)) % 256]
             fits == {j \in KeyIds : c[1] = OaepCheck(j, Unmasked(j))}
         IN IF fits # {} THEN Ok(Unmasked(CHOOSE j \in fits : TRUE))
            ELSE Raise("ValueError: Decryption failed")

\* private_key.decrypt(data, OAEP) with the private half of key pair k
rsa_decrypt(k, c) ==
    IF Len(c) # AesKeyLen + 1 THEN Raise("ValueError: Ciphertext length must be equal to key size.")
    ELSE LET m == [i \in 1..(Len(c) - 1) |-> (c[i + 1] + 256 - OaepMask(k, i)) % 256]
         IN IF c[1] = OaepCheck(k, m) THEN Ok(m) ELSE Raise("ValueError: Decryption failed")

-----------------------------------------------------------------------------
(* AES-GCM, as a keyed stand-in: a key stream added to the plaintext and a  *)
(* tag over key, iv and ciphertext                                         *)

KeyStream(key, iv, i) ==
    (key[((i - 1) % Len(key)) + 1] + iv[((i - 1) % Len(iv)) + 1] + i) % 256

GcmTag(key, iv, ct) ==
    [j \in 1..TagLen |->
        (Digest(ct, Len(ct)) + key[((j - 1) % Len(key)) + 1]
           + 3 * iv[((j - 1) % Len(iv)) + 1] + j) % 256]

\* Cipher(algorithms.AES(key), modes.GCM(iv)).encryptor(): update + finalize, tag
gcm_encrypt(key, iv, pt) ==
    LET ct == [i \in 1..Len(pt) |-> (pt[i] + KeyStream(key, iv, i)) % 256]
    IN [ciphertext |-> ct, tag |-> GcmTag(key, iv, ct)]

\* a slip: finalize() is left out, so the tag is never compared
gcm_decrypt_NoFinalize(key, iv, tag, ct) ==
    IF Len(key) \notin {16, 24, 32} THEN Raise("ValueError: Invalid key size")
    ELSE Ok([i \in 1..Len(ct) |-> (ct[i] + 256 - KeyStream(key, iv, i)) % 256])

\* Cipher(algorithms.AES(key), modes.GCM(iv, tag)).decryptor(): update + finalize
gcm_decrypt(key, iv, tag, ct) ==
    IF Len(key) \notin {16, 24, 32} THEN Raise("ValueError: Invalid key size")
    ELSE IF Len(iv) < 8 \/ Len(iv) > 128 THEN Raise("ValueError: initialization_vector")
    ELSE IF Len(tag) < 16 THEN Raise("ValueError: Authentication tag must be 16 bytes or longer.")
    ELSE IF Len(tag) > TagLen THEN Raise("ValueError: Authentication tag is too long")
    ELSE IF tag # GcmTag(key, iv, ct) THEN Raise("InvalidTag")
    ELSE Ok([i \in 1..Len(ct) |-> (ct[i] + 256 - KeyStream(key, iv, i)) % 256])

-----------------------------------------------------------------------------
(* ServerEncryption *)

EnvelopeFields == {"encrypted_content", "encrypted_key", "iv", "tag"}

\* ServerEncryption.encrypt_for_client(message, client_public_key_pem), with
\* the two os.urandom draws given as seeds
encrypt_for_client(message, client_public_key_pem, key_seed, iv_seed) ==
    LET aes_key == urandom(AesKeyLen, key_seed)
        iv == urandom(IvLen, iv_seed)
        client_public_key == load_pem_public_key(client_public_key_pem)
    IN IF ~client_public_key.ok THEN Raise(client_public_key.err)
       ELSE LET encrypted_key == rsa_encrypt(client_public_key.val, aes_key)
            IN IF ~encrypted_key.ok THEN Raise(encrypted_key.err)
               ELSE LET data == encode(message)
                    IN IF ~data.ok THEN Raise(data.err)
                       ELSE LET sealed == gcm_encrypt(aes_key, iv, data.val)
                            IN Ok([encrypted_content |-> b64encode(sealed.ciphertext),
                                   encrypted_key |-> b64encode(encrypted_key.val),
                                   iv |-> b64encode(iv),
                                   tag |-> b64encode(sealed.tag)])

\* base64.b64decode(encrypted_data[f]): a missing key is a KeyError
FieldBytes(encrypted_data, f) ==
    IF f \notin DOMAIN encrypted_data THEN Raise("KeyError: '" \o f \o "'")
    ELSE b64decode(encrypted_data[f])

\* The body of ServerEncryption.decrypt_from_client for a given private key:
\* base64-decode the four fields in the order of lines 137-140, unwrap the
\* AES key, authenticate and decrypt, decode the text.  Every exception
\* leaves as a ValueError whose message carries the message of its cause.
DecryptWith(private_key, encrypted_data) ==
    LET ciphertext == FieldBytes(encrypted_data, "encrypted_content")
        encrypted_key == FieldBytes(encrypted_data, "encrypted_key")
        iv == FieldBytes(encrypted_data, "iv")
        tag == FieldBytes(encrypted_data, "tag")
        Failed(cause) == Raise("ValueError: Failed to decrypt message: " \o str(cause))
    IN IF ~ciphertext.ok THEN Failed(ciphertext.err)
       ELSE IF ~encrypted_key.ok THEN Failed(encrypted_key.err)
       ELSE IF ~iv.ok THEN Failed(iv.err)
       ELSE IF ~tag.ok THEN Failed(tag.err)
       ELSE LET aes_key == rsa_decrypt(private_key, encrypted_key.val)
            IN IF ~aes_key.ok
               THEN Failed("ValueError: Failed to decrypt AES key: " \o str(aes_key.err))
               ELSE LET opened == gcm_decrypt(aes_key.val, iv.val, tag.val, ciphertext.val)
                    IN IF ~opened.ok THEN Failed(opened.err)
                       ELSE LET text == decode(opened.val)
                            IN IF ~text.ok THEN Failed(text.err)
                               ELSE Ok(text.val)

\* ServerEncryption.decrypt_from_client(encrypted_data): the server's private key
decrypt_from_client(encrypted_data) == DecryptWith(ServerKeyId, encrypted_data)

-----------------------------------------------------------------------------
(* The upstream chunk stream *)

\* a message id that is None
NoId == 0

\* ChatCompletionChunk: choices present or empty, an error attribute, a delta
\* or none, the delta's content (None when content_none), the finish reason
Chunk(choices, error, has_delta, content_none, content, finish_reason) ==
    [choices |-> choices, error |-> error, has_delta |-> has_delta,
     content_none |-> content_none, content |-> content, finish_reason |-> finish_reason]

Hel == <<72, 101, 108>>
lo == <<108, 111>>

NoChoices == Chunk(FALSE, FALSE, FALSE, TRUE, <<>>, None)
ErrorChunk == Chunk(TRUE, TRUE, TRUE, TRUE, <<>>, None)
FinishOnly == Chunk(TRUE, FALSE, TRUE, TRUE, <<>>, "stop")
NoDelta == Chunk(TRUE, FALSE, FALSE, TRUE, <<>>, "content_filter")
EmptyDelta == Chunk(TRUE, FALSE, TRUE, FALSE, <<>>, None)
HelChunk == Chunk(TRUE, FALSE, TRUE, FALSE, Hel, None)
LoChunk == Chunk(TRUE, FALSE, TRUE, FALSE, lo, "length")

Chunks == {NoChoices, ErrorChunk, FinishOnly, NoDelta, EmptyDelta, HelChunk, LoChunk}

\* chunk.choices[0].delta.content, or None without a delta (lines 168-171);
\* None and "" are both the empty sequence here, both falsy
ContentOf(chunk) ==
    IF chunk.has_delta /\ ~chunk.content_none THEN chunk.content ELSE <<>>

\* a slip: "if content is None" in place of "if not content"
Skipped_OnlyNone(chunk) == ~chunk.choices \/ ~chunk.has_delta \/ chunk.content_none

\* the two continue statements: no choices, or no content
Skipped(chunk) == ~chunk.choices \/ ContentOf(chunk) = <<>>

\* a slip: the delta is put in front of the running total
Accumulate_Prepend(accumulated, content) == content \o accumulated

\* accumulated_content += content
Accumulate(accumulated, content) == accumulated \o content

\* a slip: units are collected in a buffer and not sent while streaming
Emit_Buffered(sent, unit) == sent

\* yield f"data: {sse_data}\n\n": the unit goes out, after those before it
Emit(sent, unit) == Append(sent, unit)

\* a slip: the running total is encrypted in place of the delta
UnitFor_RunningTotal(content, accumulated, key, key_seed, iv_seed) ==
    LET encrypted_data == encrypt_for_client(accumulated, key, key_seed, iv_seed)
    IN IF ~encrypted_data.ok THEN Raise("ValueError: Encryption/Yield failed")
       ELSE Ok([content |-> encrypted_data.val.encrypted_content,
                encrypted_key |-> encrypted_data.val.encrypted_key,
                iv |-> encrypted_data.val.iv,
                tag |-> encrypted_data.val.tag,
                is_encrypted |-> TRUE,
                role |-> "assistant"])

\* the unit yielded for a content chunk: the delta encrypted for the client
\* (accumulated is the running total, which the code does not send)
UnitFor(content, accumulated, key, key_seed, iv_seed) ==
    LET encrypted_data == encrypt_for_client(content, key, key_seed, iv_seed)
    IN IF ~encrypted_data.ok THEN Raise("ValueError: Encryption/Yield failed")
       ELSE Ok([content |-> encrypted_data.val.encrypted_content,
                encrypted_key |-> encrypted_data.val.encrypted_key,
                iv |-> encrypted_data.val.iv,
                tag |-> encrypted_data.val.tag,
                is_encrypted |-> TRUE,
                role |-> "assistant"])

\* a slip: the saved user message is not asked for
ShouldSchedule_NoUserMessage(a, accumulated) ==
    /\ a.conversation # None
    /\ a.background_tasks
    /\ a.model_name # None
    /\ accumulated # <<>>
    /\ Truthy(a.user_public_key)

\* a slip: the key test of the inner if is inverted
ShouldSchedule_KeyInverted(a, accumulated) ==
    /\ a.conversation # None
    /\ a.background_tasks
    /\ a.user_message_id # NoId
    /\ a.model_name # None
    /\ accumulated # <<>>
    /\ ~Truthy(a.user_public_key)

\* the condition under which the save is scheduled after the loop
ShouldSchedule(a, accumulated) ==
    /\ a.conversation # None
    /\ a.background_tasks
    /\ a.user_message_id # NoId
    /\ a.model_name # None
    /\ accumulated # <<>>
    /\ Truthy(a.user_public_key)

\* a slip: the save is scheduled twice
add_task_Twice(queue, a, accumulated) ==
    LET t == [conversation_id |-> a.conversation,
              user_message_id |-> a.user_message_id,
              model_name |-> a.model_name,
              full_content |-> accumulated,
              user_public_key |-> a.user_public_key,
              state |-> "queued", logged |-> "", raised |-> None]
    IN Append(Append(queue, t), t)

\* background_tasks.add_task(save_streamed_message, ...)
add_task(queue, a, accumulated) ==
    Append(queue, [conversation_id |-> a.conversation,
                   user_message_id |-> a.user_message_id,
                   model_name |-> a.model_name,
                   full_content |-> accumulated,
                   user_public_key |-> a.user_public_key,
                   state |-> "queued", logged |-> "", raised |-> None])

-----------------------------------------------------------------------------
(* stream_wrapper *)

\* the argument combinations explored: the chat endpoint's call with and
\* without a conversation, a saved user message and a usable key, and a call
\* that leaves background_tasks at its default
Call(conv, key, umid, bg) ==
    [conversation |-> conv, user_public_key |-> key, user_message_id |-> umid,
     background_tasks |-> bg, model_name |-> "gpt"]

Calls ==
    {Call("c1", RsaPem(ClientKeyId), 1, TRUE),
     Call("c1", RsaPem(ClientKeyId), NoId, TRUE),
     Call(None, RsaPem(ClientKeyId), NoId, TRUE),
     Call("c1", RsaPem(ClientKeyId), 1, FALSE),
     Call("c1", NoKey, 1, TRUE),
     Call("c1", RawKeyBlob, 1, TRUE)}

NoCall == Call(None, NoKey, NoId, FALSE)

\* the generator is created and started: await stream, has_content = False
StreamWrapper(a) ==
    /\ pc = "idle"
    /\ pc' = "awaiting"
    /\ args' = a
    /\ accumulated_content' = <<>>
    /\ has_content' = FALSE
    /\ UNCHANGED <<received, upstream_end, emitted, propagated, tasks, messages,
                   conversations, touched, next_id, cipherVars, endpointVars, serverVars>>

\* the upstream stream delivers a chunk and the loop body runs up to its
\* next suspension: the continue, the raise, or the yield
OnChunk(chunk, key_seed, iv_seed) ==
    /\ pc = "awaiting"
    /\ Len(received) < MaxChunks
    /\ received' = Append(received, chunk)
    /\ IF ~chunk.choices
       THEN UNCHANGED <<pc, accumulated_content, has_content, emitted, propagated>>
       ELSE IF chunk.error
       THEN /\ pc' = "raised"
            /\ propagated' = "ValueError: LLM error"
            /\ UNCHANGED <<accumulated_content, has_content, emitted>>
       ELSE IF Skipped(chunk)
       THEN UNCHANGED <<pc, accumulated_content, has_content, emitted, propagated>>
       ELSE LET content == ContentOf(chunk)
                total == Accumulate(accumulated_content, content)
                unit == UnitFor(content, total, args.user_public_key, key_seed, iv_seed)
            IN /\ has_content' = TRUE
               /\ accumulated_content' = total
               /\ IF ~Truthy(args.user_public_key)
                  THEN /\ pc' = "raised"
                       /\ propagated' = "ValueError: Cannot stream without encryption key"
                       /\ UNCHANGED emitted
                  ELSE IF ~unit.ok
                  THEN /\ pc' = "raised"
                       /\ propagated' = unit.err
                       /\ UNCHANGED emitted
                  ELSE /\ pc' = "yielded"
                       /\ emitted' = Emit(emitted, unit.val)
                       /\ UNCHANGED propagated
    /\ UNCHANGED <<args, upstream_end, tasks, messages, conversations, touched,
                   next_id, cipherVars, endpointVars, serverVars>>

\* the client's consumer takes the yielded unit and asks for the next one
Resume ==
    /\ pc = "yielded"
    /\ pc' = "awaiting"
    /\ UNCHANGED <<args, accumulated_content, has_content, received, upstream_end,
                   emitted, propagated, tasks, messages, conversations, touched,
                   next_id, cipherVars, endpointVars, serverVars>>

\* the upstream stream is exhausted: the code after the loop
OnExhausted ==
    /\ pc = "awaiting"
    /\ upstream_end' = "exhausted"
    /\ pc' = "done"
    /\ tasks' = IF has_content /\ ShouldSchedule(args, accumulated_content)
                THEN add_task(tasks, args, accumulated_content)
                ELSE tasks
    /\ UNCHANGED <<args, accumulated_content, has_content, received, emitted,
                   propagated, messages, conversations, touched, next_id, cipherVars, endpointVars, serverVars>>

\* awaiting the stream or its next chunk raises (APIError): except Exception
\* logs and re-raises, nothing is yielded and nothing is scheduled
OnUpstreamError ==
    /\ pc = "awaiting"
    /\ upstream_end' = "raised"
    /\ pc' = "raised"
    /\ propagated' = "APIError"
    /\ UNCHANGED <<args, accumulated_content, has_content, received, emitted,
                   tasks, messages, conversations, touched, next_id, cipherVars, endpointVars, serverVars>>

\* a slip: closing the generator runs the code after the loop
ClientDisconnect_RunsRest ==
    /\ pc \in {"awaiting", "yielded"}
    /\ pc' = "closed"
    /\ tasks' = IF has_content /\ ShouldSchedule(args, accumulated_content)
                THEN add_task(tasks, args, accumulated_content)
                ELSE tasks
    /\ UNCHANGED <<args, accumulated_content, has_content, received, upstream_end,
                   emitted, propagated, messages, conversations, touched,
                   next_id, cipherVars, endpointVars, serverVars>>

\* the client disconnects: the generator is closed at its suspension point
\* (GeneratorExit / CancelledError are not Exception; only finally runs)
ClientDisconnect ==
    /\ pc \in {"awaiting", "yielded"}
    /\ pc' = "closed"
    /\ UNCHANGED <<args, accumulated_content, has_content, received, upstream_end,
                   emitted, propagated, tasks, messages, conversations, touched,
                   next_id, cipherVars, endpointVars, serverVars>>

-----------------------------------------------------------------------------
(* save_streamed_message, the background task; it suspends at each await   *)

\* the users that make requests
Users == {"u1", "u2"}

\* conversation.user: conversation "c2" belongs to u2, the others to u1
OwnerOf(conversation_id) == IF conversation_id = "c2" THEN "u2" ELSE "u1"

\* a slip: the lookup without the owner filter
FindOwned_AnyUser(store, conversation_id, current_user) == conversation_id \in store

\* Conversation.find_one(id).find_one(Conversation.user.id == current_user.id)
FindOwned(store, conversation_id, current_user) ==
    conversation_id \in store /\ OwnerOf(conversation_id) = current_user

\* the four envelope fields of a stored message or an emitted unit
EnvelopeOf(m) ==
    [encrypted_content |-> m.content, encrypted_key |-> m.encrypted_key,
     iv |-> m.iv, tag |-> m.tag]

\* Message(role="assistant", ...) of lines 104-117
AssistantMessage(id, task, encrypted_final_data) ==
    [id |-> id, role |-> "assistant", conversation_id |-> task.conversation_id,
     parent_message_id |-> task.user_message_id, model_id |-> task.model_name,
     user |-> OwnerOf(task.conversation_id),
     content |-> encrypted_final_data.encrypted_content,
     encrypted_key |-> encrypted_final_data.encrypted_key,
     iv |-> encrypted_final_data.iv,
     tag |-> encrypted_final_data.tag]

SetState(queue, i, st) == [queue EXCEPT ![i].state = st]

\* a slip: the handlers log and re-raise
Swallow_Reraise(exc) == [logged |-> exc, raised |-> exc]

\* except ValueError / except Exception of lines 130-133: the error is
\* logged and nothing leaves the coroutine
Swallow(exc) == [logged |-> exc, raised |-> None]

\* the task ends on an exception raised inside its try block
Fail(queue, i, exc) ==
    [queue EXCEPT ![i].state = "finished",
                  ![i].logged = Swallow(exc).logged,
                  ![i].raised = Swallow(exc).raised]

\* the task ends at the return of line 81, after logger.error
Return(queue, i, line) ==
    [queue EXCEPT ![i].state = "finished", ![i].logged = line]

\* the first task that has not finished: BackgroundTasks runs them in order
Current(queue) ==
    IF \E i \in 1..Len(queue) : queue[i].state # "finished"
    THEN CHOOSE i \in 1..Len(queue) :
            /\ queue[i].state # "finished"
            /\ \A j \in 1..(i - 1) : queue[j].state = "finished"
    ELSE 0

\* the task starts: empty content is a ValueError (logged); otherwise
\* await Conversation.get(...), and a missing conversation ends the task
SaveFetch ==
    /\ pc = "done"
    /\ Current(tasks) # 0
    /\ LET i == Current(tasks)
       IN /\ tasks[i].state = "queued"
          /\ tasks' = IF tasks[i].full_content = <<>>
                      THEN Fail(tasks, i, "ValueError: Empty content provided for saving")
                      ELSE IF tasks[i].conversation_id \notin conversations
                      THEN Return(tasks, i, "Could not find conversation")
                      ELSE SetState(tasks, i, "fetched")
    /\ UNCHANGED <<pc, args, accumulated_content, has_content, received, upstream_end,
                   emitted, propagated, messages, conversations, touched, next_id,
                   cipherVars, endpointVars, serverVars>>

\* the key check, the re-encryption of the full content and
\* await assistant_message.save(); a failure is logged and ends the task
SaveMessage(key_seed, iv_seed) ==
    /\ pc = "done"
    /\ Current(tasks) # 0
    /\ LET i == Current(tasks)
           encrypted_final_data ==
               encrypt_for_client(tasks[i].full_content, tasks[i].user_public_key,
                                  key_seed, iv_seed)
       IN /\ tasks[i].state = "fetched"
          /\ IF ~Truthy(tasks[i].user_public_key)
             THEN /\ tasks' = Fail(tasks, i, "ValueError: Missing user public key for saving")
                  /\ UNCHANGED <<messages, next_id>>
             ELSE IF ~encrypted_final_data.ok
             THEN /\ tasks' = Fail(tasks, i, "ValueError: Failed to encrypt message for saving")
                  /\ UNCHANGED <<messages, next_id>>
             ELSE /\ tasks' = SetState(tasks, i, "saved")
                  /\ messages' = messages \cup
                        {AssistantMessage(next_id, tasks[i], encrypted_final_data.val)}
                  /\ next_id' = next_id + 1
    /\ UNCHANGED <<pc, args, accumulated_content, has_content, received, upstream_end,
                   emitted, propagated, conversations, touched, cipherVars, endpointVars, serverVars>>

\* conversation.updated_at = now; await conversation.save() writes the
\* document fetched earlier
SaveTouch ==
    /\ pc = "done"
    /\ Current(tasks) # 0
    /\ LET i == Current(tasks)
       IN /\ tasks[i].state = "saved"
          /\ tasks' = SetState(tasks, i, "finished")
          /\ conversations' = conversations \cup {tasks[i].conversation_id}
          /\ touched' = touched + 1
    /\ UNCHANGED <<pc, args, accumulated_content, has_content, received, upstream_end,
                   emitted, propagated, messages, next_id, cipherVars, endpointVars, serverVars>>

-----------------------------------------------------------------------------
(* The relay and its store *)

\* the user message the chat endpoint stored before it started the stream
StoredUserMessage ==
    LET e == encrypt_for_client(<<112, 105, 110, 103>>, RsaPem(ClientKeyId), 11, 11).val
    IN [id |-> 1, role |-> "user", conversation_id |-> "c1", parent_message_id |-> NoId,
        model_id |-> "gpt", user |-> "u1", content |-> e.encrypted_content,
        encrypted_key |-> e.encrypted_key, iv |-> e.iv, tag |-> e.tag]

RelayInit ==
    /\ pc = "idle"
    /\ args = NoCall
    /\ accumulated_content = <<>>
    /\ has_content = FALSE
    /\ received = <<>>
    /\ upstream_end = "open"
    /\ emitted = <<>>
    /\ propagated = None
    /\ tasks = <<>>
    /\ messages = {StoredUserMessage}
    /\ conversations = {"c1"}
    /\ touched = 0
    /\ next_id = 2

\* the envelope reaches the decrypt call as it was produced
NoTamper == [field |-> "none", kind |-> "none", pos |-> 0, bit |-> 0]

\* no request handled yet
NoRequest == [endpoint |-> "none", messages |-> <<>>, stream |-> FALSE,
              conversation_id |-> None]

NoResponse == [status |-> 0, detail |-> ""]

\* the User document: the fields of models/user.py that the handlers read
\* (there is no public_key field)
NewUser == [id |-> "u1", ed25519_public_key |-> NoKey, key_version |-> 1,
            auth_token |-> "sk-u1"]

\* no delete_conversation request handled yet
NoDelete == [pc |-> "idle", current_user |-> None, conversation_id |-> None, status |-> 0]

\* no thread request handled yet
NoThread == [pc |-> "idle", current_user |-> None, conversation_id |-> None,
             message_id |-> NoId, current_id |-> NoId, thread |-> <<>>, status |-> 0]

EndpointIdle ==
    /\ e_pc = "idle"
    /\ e_request = NoRequest
    /\ e_response = NoResponse
    /\ e_upstream = <<>>
    /\ user = NewUser
    /\ u_log = <<>>
    /\ d_run = NoDelete
    /\ t_run = NoThread

\* the singleton after import, with its key pair on disk
ServerReady ==
    /\ keys = [private_key |-> ServerKeyId, public_key |-> ServerKeyId]
    /\ key_files = [private |-> ServerKeyId, public |-> ServerKeyId]
    /\ k_log = <<>>

CipherIdle ==
    /\ c_pc = "init"
    /\ c_in = [plaintext |-> <<>>, recipient |-> NoKey]
    /\ c_env = Raise("not called")
    /\ c_out = [key |-> 0, res |-> Raise("not called")]
    /\ c_tamper = NoTamper
    /\ c_log = <<>>
    /\ c_calls = <<>>

Init == RelayInit /\ CipherIdle /\ EndpointIdle /\ ServerReady

Next ==
    \/ \E a \in Calls : StreamWrapper(a)
    \/ \E chunk \in Chunks, draw \in Draws : OnChunk(chunk, draw[1], draw[2])
    \/ Resume
    \/ OnExhausted
    \/ OnUpstreamError
    \/ ClientDisconnect
    \/ SaveFetch
    \/ \E draw \in Draws : SaveMessage(draw[1], draw[2])
    \/ SaveTouch

Spec == Init /\ [][Next]_vars

-----------------------------------------------------------------------------
(* save_streamed_message called on its own, after a response has ended     *)

\* the arguments explored: empty and non-empty content, a usable key, a raw
\* key blob and no key, a stored conversation and an unknown one
SaveCalls ==
    {[conversation_id |-> conv, model_name |-> "gpt", full_content |-> content,
      user_public_key |-> key] :
        conv \in {"c1", "c9"}, content \in {<<>>, Hel},
        key \in {RsaPem(ClientKeyId), RawKeyBlob, NoKey}}

\* the state after a stream that delivered nothing: no task was scheduled
InitSave ==
    /\ pc = "done"
    /\ args \in Calls
    /\ accumulated_content = <<>>
    /\ has_content = FALSE
    /\ received = <<>>
    /\ upstream_end = "exhausted"
    /\ emitted = <<>>
    /\ propagated = None
    /\ tasks = <<>>
    /\ messages = {StoredUserMessage}
    /\ conversations = {"c1"}
    /\ touched = 0
    /\ next_id = 2
    /\ CipherIdle
    /\ EndpointIdle
    /\ ServerReady

\* save_streamed_message(conversation_id, user_message_id, model_name,
\* full_content, user_public_key) is called
ScheduleSave(call, user_message_id) ==
    /\ pc = "done"
    /\ Len(tasks) < MaxSaves
    /\ tasks' = Append(tasks,
                  [conversation_id |-> call.conversation_id,
                   user_message_id |-> user_message_id,
                   model_name |-> call.model_name,
                   full_content |-> call.full_content,
                   user_public_key |-> call.user_public_key,
                   state |-> "queued", logged |-> "", raised |-> None])
    /\ UNCHANGED <<pc, args, accumulated_content, has_content, received, upstream_end,
                   emitted, propagated, messages, conversations, touched, next_id,
                   cipherVars, endpointVars, serverVars>>

\* each call is for its own user message
SaveCall(call) == ScheduleSave(call, Len(tasks) + 1)

NextSave ==
    \/ \E call \in SaveCalls : SaveCall(call)
    \/ SaveFetch
    \/ \E draw \in Draws : SaveMessage(draw[1], draw[2])
    \/ SaveTouch

SpecSave == InitSave /\ [][NextSave]_vars

-----------------------------------------------------------------------------
(* delete_conversation, beside the background save (api/conversations.py)  *)

\* delete_conversation up to its second await: the lookup under the owner
\* filter, a 404 if it finds nothing, else the messages are deleted
DeleteConversation(current_user, conversation_id) ==
    /\ d_run.pc = "idle"
    /\ IF FindOwned(conversations, conversation_id, current_user)
       THEN /\ messages' = {m \in messages : m.conversation_id # conversation_id}
            /\ d_run' = [pc |-> "messages_deleted", current_user |-> current_user,
                         conversation_id |-> conversation_id, status |-> 0]
       ELSE /\ d_run' = [pc |-> "answered", current_user |-> current_user,
                         conversation_id |-> conversation_id, status |-> 404]
            /\ UNCHANGED messages
    /\ UNCHANGED <<pc, args, accumulated_content, has_content, received, upstream_end,
                   emitted, propagated, tasks, conversations, touched, next_id,
                   e_pc, e_request, e_response, e_upstream, user, u_log, t_run,
                   cipherVars, serverVars>>

\* await conversation.delete(), then the 204
DeleteDocument ==
    /\ d_run.pc = "messages_deleted"
    /\ conversations' = conversations \ {d_run.conversation_id}
    /\ d_run' = [d_run EXCEPT !.pc = "answered", !.status = 204]
    /\ UNCHANGED <<pc, args, accumulated_content, has_content, received, upstream_end,
                   emitted, propagated, tasks, messages, touched, next_id,
                   e_pc, e_request, e_response, e_upstream, user, u_log, t_run,
                   cipherVars, serverVars>>

NextDelete ==
    \/ NextSave
    \/ \E current_user \in Users : DeleteConversation(current_user, "c1")
    \/ DeleteDocument

SpecDelete == InitSave /\ [][NextDelete]_vars

-----------------------------------------------------------------------------
(* The application's lifespan: shutdown and the next startup (api/db.py)   *)

\* migrate_database(db): db.drop_collection("messages"), then init_beanie
migrate_database(collection) == {}

\* the server is stopped once no background task is running, and started
\* again: lifespan pings the database and calls migrate_database
Lifespan ==
    /\ pc = "done"
    /\ Current(tasks) = 0
    /\ messages # {}
    /\ messages' = migrate_database(messages)
    /\ UNCHANGED <<pc, args, accumulated_content, has_content, received, upstream_end,
                   emitted, propagated, tasks, conversations, touched, next_id,
                   cipherVars, endpointVars, serverVars>>

NextRestart ==
    \/ NextSave
    \/ Lifespan

SpecRestart == InitSave /\ [][NextRestart]_vars

-----------------------------------------------------------------------------
(* The cipher on its own: encrypt a plaintext for a recipient, then decrypt *)
(* the envelope with a private key                                         *)

Plaintexts ==
    {<<>>, Hel, lo, <<112, 105, 110, 103>>, <<233>>, <<72, 8364>>, <<55296>>}

Recipients == {RsaPem(ServerKeyId), RsaPem(ClientKeyId), Ed25519Pem, RawKeyBlob, NoKey}

InitCipher ==
    /\ RelayInit
    /\ EndpointIdle
    /\ ServerReady
    /\ c_pc = "init"
    /\ c_in \in [plaintext : Plaintexts, recipient : Recipients]
    /\ c_env = Raise("not called")
    /\ c_out = [key |-> 0, res |-> Raise("not called")]
    /\ c_tamper = NoTamper
    /\ c_log = <<>>
    /\ c_calls = <<>>

\* server_encryption.encrypt_for_client(plaintext, recipient)
Encrypt(key_seed, iv_seed) ==
    /\ c_pc = "init"
    /\ c_pc' = "encrypted"
    /\ c_env' = encrypt_for_client(c_in.plaintext, c_in.recipient, key_seed, iv_seed)
    /\ UNCHANGED <<c_in, c_out, c_tamper, c_log, c_calls, relayVars, endpointVars, serverVars>>

\* the holder of private key k decrypts the envelope
\* (k = ServerKeyId is server_encryption.decrypt_from_client)
Decrypt(k) ==
    /\ c_pc = "encrypted"
    /\ c_env.ok
    /\ c_pc' = "decrypted"
    /\ c_out' = [key |-> k,
                 res |-> IF k = ServerKeyId THEN decrypt_from_client(c_env.val)
                         ELSE DecryptWith(k, c_env.val)]
    /\ UNCHANGED <<c_in, c_env, c_tamper, c_log, c_calls, relayVars, endpointVars, serverVars>>

NextCipher ==
    \/ \E key_seed \in Seeds, iv_seed \in Seeds : Encrypt(key_seed, iv_seed)
    \/ \E k \in KeyIds : Decrypt(k)

SpecCipher == InitCipher /\ [][NextCipher]_vars

-----------------------------------------------------------------------------
(* An envelope changed between encryption and decryption: the bytes of its   *)
(* ciphertext or of its tag, as the decrypt call decodes them               *)

\* byte b with one bit flipped
FlipBit(b, bit) == IF (b \div (2 ^ bit)) % 2 = 1 THEN b - 2 ^ bit ELSE b + 2 ^ bit

\* the bytes after the change: one bit flipped, the last byte cut off, or a
\* zero byte added
Tampered(bs, t) ==
    IF t.kind = "flip" THEN [bs EXCEPT ![t.pos] = FlipBit(@, t.bit)]
    ELSE IF t.kind = "truncate" THEN SubSeq(bs, 1, Len(bs) - 1)
    ELSE Append(bs, 0)

\* the changes that can be made to field f of an envelope
Tampers(envelope, f) ==
    LET n == Len(b64decode(envelope[f]).val)
    IN [field : {f}, kind : {"flip"}, pos : 1..n, bit : 0..7]
       \cup (IF n > 0 THEN {[field |-> f, kind |-> "truncate", pos |-> n, bit |-> 0]} ELSE {})
       \cup {[field |-> f, kind |-> "extend", pos |-> n + 1, bit |-> 0]}

\* the envelope is changed on its way to the decrypt call
Tamper(t) ==
    /\ c_pc = "encrypted"
    /\ c_env.ok
    /\ c_tamper = NoTamper
    /\ c_tamper' = t
    /\ c_env' = Ok([c_env.val EXCEPT
                      ![t.field] = b64encode(Tampered(b64decode(@).val, t))])
    /\ UNCHANGED <<c_pc, c_in, c_out, c_log, c_calls, relayVars, endpointVars, serverVars>>

NextTamper ==
    \/ \E key_seed \in Seeds, iv_seed \in Seeds : Encrypt(key_seed, iv_seed)
    \/ \E f \in {"encrypted_content", "tag"} :
          \E t \in (IF c_env.ok THEN Tampers(c_env.val, f) ELSE {}) : Tamper(t)
    \/ \E k \in KeyIds : Decrypt(k)

SpecTamper == InitCipher /\ [][NextTamper]_vars

-----------------------------------------------------------------------------
(* Successive encrypt_for_client calls of one server process                *)

InitCalls ==
    /\ RelayInit
    /\ EndpointIdle
    /\ ServerReady
    /\ c_pc = "init"
    /\ c_in \in [plaintext : Plaintexts, recipient : {RsaPem(ClientKeyId)}]
    /\ c_env = Raise("not called")
    /\ c_out = [key |-> 0, res |-> Raise("not called")]
    /\ c_tamper = NoTamper
    /\ c_log = <<>>
    /\ c_calls = <<>>

\* one more call: the same plaintext, for either recipient, with the call's
\* own two draws
EncryptCall(recipient, key_seed, iv_seed) ==
    /\ Len(c_log) < MaxCalls
    /\ c_env' = encrypt_for_client(c_in.plaintext, recipient, key_seed, iv_seed)
    /\ c_log' = Append(c_log, [recipient |-> recipient, key_seed |-> key_seed,
                               iv_seed |-> iv_seed, res |-> c_env'])
    /\ c_pc' = "encrypted"
    /\ UNCHANGED <<c_in, c_out, c_tamper, c_calls, relayVars, endpointVars, serverVars>>

NextCalls ==
    \E recipient \in {RsaPem(ServerKeyId), RsaPem(ClientKeyId)},
       key_seed \in Seeds, iv_seed \in Seeds :
        EncryptCall(recipient, key_seed, iv_seed)

SpecCalls == InitCalls /\ [][NextCalls]_vars

-----------------------------------------------------------------------------
(* Successive decrypt_from_client calls on envelopes the server receives    *)

\* the dict without key f
Drop(encrypted_data, f) == [g \in (DOMAIN encrypted_data) \ {f} |-> encrypted_data[g]]

\* field f with its last base64 character lost
Cut(encrypted_data, f) ==
    [encrypted_data EXCEPT ![f] = SubSeq(@, 1, Len(@) - 1)]

\* field f with the lowest bit of its first byte flipped
Flipped(encrypted_data, f) ==
    [encrypted_data EXCEPT
        ![f] = b64encode([b64decode(@).val EXCEPT ![1] = FlipBit(@, 0)])]

\* what a client sends: a message encrypted for the server's key
Sent(message) == encrypt_for_client(message, RsaPem(ServerKeyId), 11, 200).val

\* the envelopes of message m that reach decrypt_from_client, each with the
\* reason it cannot be decrypted ("none" for a good one)
InboundOf(m) ==
    {[cause |-> "none", data |-> Sent(m)]}
    \cup {[cause |-> "wrong private key",
            data |-> encrypt_for_client(m, RsaPem(ClientKeyId), 11, 200).val]}
    \cup {[cause |-> "truncated base64 field", data |-> Cut(Sent(m), f)] :
             f \in EnvelopeFields}
    \cup {[cause |-> "tag mismatch", data |-> Flipped(Sent(m), f)] :
             f \in {"encrypted_content", "tag"}}
    \cup {[cause |-> "missing required field", data |-> Drop(Sent(m), f)] :
             f \in EnvelopeFields}

Inbound == InboundOf(Hel) \cup InboundOf(<<112, 105, 110, 103>>)

\* server_encryption.decrypt_from_client(encrypted_data)
DecryptCall(inbound) ==
    /\ Len(c_calls) < MaxDecrypts
    /\ c_calls' = Append(c_calls, [cause |-> inbound.cause, data |-> inbound.data,
                                   res |-> decrypt_from_client(inbound.data)])
    /\ UNCHANGED <<c_pc, c_in, c_env, c_out, c_tamper, c_log, relayVars, endpointVars, serverVars>>

NextDecrypts == \E inbound \in Inbound : DecryptCall(inbound)

SpecDecrypts == Init /\ [][NextDecrypts]_vars

-----------------------------------------------------------------------------
(* The chat-generate and summarize endpoints                                *)

\* one message of a request body; data holds the envelope fields it carries
\* (encrypted_content is the summarize endpoint's content)
RequestMessage(role, is_encrypted, inbound) ==
    [role |-> role, is_encrypted |-> is_encrypted, cause |-> inbound.cause,
     data |-> inbound.data]

\* the messages a client sends: good ones, ones that cannot be decrypted,
\* one that decrypts to the empty text, one not marked as encrypted
RequestMessages ==
    {RequestMessage("user", TRUE, x) : x \in InboundOf(Hel)}
    \cup {RequestMessage("assistant", TRUE, [cause |-> "none", data |-> Sent(lo)]),
          RequestMessage("user", TRUE, [cause |-> "none", data |-> Sent(<<>>)]),
          RequestMessage("user", FALSE, [cause |-> "none", data |-> Sent(Hel)])}

MessageLists == UNION {[1..n -> RequestMessages] : n \in 0..MaxMessages}

\* ChatRequest bodies: with or without a conversation_id, streamed or not
ChatRequests ==
    [endpoint : {"chat"}, messages : MessageLists, stream : BOOLEAN,
     conversation_id : {None, "c1"}]

\* SummarizeRequest bodies, for the conversation of the path
SummarizeRequests ==
    [endpoint : {"summarize"}, messages : MessageLists, stream : {FALSE},
     conversation_id : {"c1"}]

Response(status, detail) == [status |-> status, detail |-> detail]

\* current_user.public_key: an attribute the User document does not have
PublicKeyOf(u) ==
    IF "public_key" \in DOMAIN u THEN Ok(u.public_key)
    ELSE Raise("AttributeError: 'User' object has no attribute 'public_key'")

\* one pass of the loop of chat.py:353-397 over message i: the exception it
\* raises, or the decrypted content
ChatMessage(msg) ==
    IF ~msg.is_encrypted
    THEN Raise("HTTPException: 400: All messages must be encrypted")
    ELSE IF "encrypted_content" \notin DOMAIN msg.data \/ msg.data.encrypted_content = <<>>
    THEN Raise("HTTPException: 400: Encrypted message missing required fields")
    ELSE LET decrypted_content == decrypt_from_client(msg.data)
         IN IF ~decrypted_content.ok
            THEN Raise("HTTPException: 400: Failed to decrypt message N/A")
            ELSE decrypted_content

\* a slip: a message that fails is skipped with a warning, like an empty one
RECURSIVE ChatLoop_SkipFailed(_, _, _)
ChatLoop_SkipFailed(messages_data, i, llm_messages) ==
    IF i > Len(messages_data) THEN Ok(llm_messages)
    ELSE LET content == ChatMessage(messages_data[i])
         IN IF ~content.ok \/ content.val = <<>>
            THEN ChatLoop_SkipFailed(messages_data, i + 1, llm_messages)
            ELSE ChatLoop_SkipFailed(messages_data, i + 1,
                    Append(llm_messages, [role |-> messages_data[i].role,
                                          content |-> content.val]))

\* the loop of chat.py:353-397 from message i on: the first exception is
\* re-raised as a 400, an empty message is skipped, the others are collected
RECURSIVE ChatLoop(_, _, _)
ChatLoop(messages_data, i, llm_messages) ==
    IF i > Len(messages_data) THEN Ok(llm_messages)
    ELSE LET content == ChatMessage(messages_data[i])
         IN IF ~content.ok
            THEN Raise("HTTPException: 400: Error processing message N/A: "
                       \o str(content.err))
            ELSE IF content.val = <<>>
            THEN ChatLoop(messages_data, i + 1, llm_messages)
            ELSE ChatLoop(messages_data, i + 1,
                    Append(llm_messages, [role |-> messages_data[i].role,
                                          content |-> content.val]))

\* last_decrypted_content after a loop that raised nothing (empty: None)
LastDecryptedContent(messages_data) ==
    IF messages_data = <<>> THEN <<>>
    ELSE decrypt_from_client(messages_data[Len(messages_data)].data).val

\* what a handler run did: its response, the generation calls it made, the
\* messages it saved, and the stream_wrapper call it started (or NoCall)
Result(response, upstream, saved, started) ==
    [response |-> response, upstream |-> upstream, saved |-> saved, started |-> started]

\* Message(role="user", ...) of chat.py:419-428
UserMessage(id, conversation_id, encrypted_for_storage) ==
    [id |-> id, role |-> "user", conversation_id |-> conversation_id,
     parent_message_id |-> NoId, model_id |-> "gpt", user |-> "u1",
     content |-> encrypted_for_storage.encrypted_content,
     encrypted_key |-> encrypted_for_storage.encrypted_key,
     iv |-> encrypted_for_storage.iv,
     tag |-> encrypted_for_storage.tag]

\* chat.py:438-529: the generation call and the response.  The streaming
\* call builds the request coroutine and then reads current_user.public_key;
\* the other awaits the completion (content "Hel") and then reads it.
Generate(request, u, llm_messages, saved, user_message_id) ==
    LET key == PublicKeyOf(u)
    IN IF request.stream
       THEN IF ~key.ok
            THEN Result(Response(500, str(key.err)), <<>>, saved, NoCall)
            ELSE Result(Response(200, "text/event-stream"), <<llm_messages>>, saved,
                        [conversation |-> request.conversation_id,
                         user_public_key |-> key.val,
                         user_message_id |-> user_message_id,
                         background_tasks |-> TRUE, model_name |-> "gpt"])
       ELSE IF ~key.ok
            THEN Result(Response(500, "500: " \o str(key.err)), <<llm_messages>>, saved, NoCall)
            ELSE IF ~Truthy(key.val)
            THEN Result(Response(200, "is_encrypted: False"), <<llm_messages>>, saved, NoCall)
            ELSE IF ~encrypt_for_client(Hel, key.val, 11, 200).ok
            THEN Result(Response(500, "500: Failed to encrypt response"), <<llm_messages>>,
                        saved, NoCall)
            ELSE Result(Response(200, "is_encrypted: True"), <<llm_messages>>, saved, NoCall)

\* chat.py:399-436 after a loop that raised nothing: the last message is
\* saved when it is a user message of a conversation, then the generation
\* call is made
SaveLastUserMessage(request, u, llm_messages, id, key, encrypted_for_storage) ==
    IF /\ request.conversation_id # None
       /\ request.messages # <<>>
       /\ request.messages[Len(request.messages)].role = "user"
       /\ LastDecryptedContent(request.messages) # <<>>
    THEN IF ~key.ok
         THEN Result(Response(500, "Internal Server Error"), <<>>, {}, NoCall)
         ELSE IF ~Truthy(key.val)
         THEN Result(Response(500, "User public key not found for saving message."),
                     <<>>, {}, NoCall)
         ELSE IF ~encrypted_for_storage.ok
         THEN Result(Response(500, "Failed to prepare or save user message."),
                     <<>>, {}, NoCall)
         ELSE Generate(request, u, llm_messages,
                       {UserMessage(id, request.conversation_id, encrypted_for_storage.val)},
                       id)
    ELSE Generate(request, u, llm_messages, {}, NoId)

\* chat.py:316-397 for a request whose model and auth token are in order:
\* the conversation lookup, then the outcome of the loop
ChatOutcome(request, u, store, id, key_seed, iv_seed, loop) ==
    IF request.conversation_id # None /\ ~FindOwned(store, request.conversation_id, u.id)
    THEN Result(Response(500, "Error accessing conversation data: 404: Conversation not found or access denied"),
                <<>>, {}, NoCall)
    ELSE IF ~loop.ok
    THEN Result(Response(400, str(str(loop.err))), <<>>, {}, NoCall)
    ELSE SaveLastUserMessage(request, u, loop.val, id, PublicKeyOf(u),
            IF PublicKeyOf(u).ok
            THEN encrypt_for_client(LastDecryptedContent(request.messages),
                                    PublicKeyOf(u).val, key_seed, iv_seed)
            ELSE Raise(PublicKeyOf(u).err))

\* POST /{model_name}/generate
Chat(request, key_seed, iv_seed) ==
    /\ e_pc = "idle"
    /\ pc = "idle"
    /\ \E r \in {ChatOutcome(request, user, conversations, next_id, key_seed, iv_seed,
                             ChatLoop(request.messages, 1, <<>>))} :
          /\ e_pc' = "answered"
          /\ e_request' = request
          /\ e_response' = r.response
          /\ e_upstream' = e_upstream \o r.upstream
          /\ messages' = messages \cup r.saved
          /\ next_id' = next_id + Cardinality(r.saved)
          /\ IF r.started = NoCall
             THEN UNCHANGED <<pc, args>>
             ELSE pc' = "awaiting" /\ args' = r.started
    /\ UNCHANGED <<accumulated_content, has_content, received, upstream_end, emitted,
                   propagated, tasks, conversations, touched, user, u_log, d_run, t_run,
                   cipherVars, serverVars>>

\* "not x" for a field of a request message: absent (None) or empty
Falsy(data, f) == f \notin DOMAIN data \/ data[f] = <<>>

\* the loop of conversations.py:274-320 from message i on: a message without
\* content or without one of the components is skipped, a decryption that
\* fails is a 400 carrying the error's text
RECURSIVE SummarizeLoop(_, _, _)
SummarizeLoop(request_messages, i, decrypted_messages) ==
    IF i > Len(request_messages) THEN Ok(decrypted_messages)
    ELSE LET msg_data == request_messages[i]
         IN IF \E f \in EnvelopeFields : Falsy(msg_data.data, f)
            THEN SummarizeLoop(request_messages, i + 1, decrypted_messages)
            ELSE LET decrypted_content == decrypt_from_client(msg_data.data)
                 IN IF ~decrypted_content.ok
                    THEN Raise("HTTPException: 400: Failed to decrypt message content for summarization: "
                               \o str(decrypted_content.err))
                    ELSE SummarizeLoop(request_messages, i + 1,
                            Append(decrypted_messages,
                                   [role |-> msg_data.role,
                                    content |-> decrypted_content.val]))

\* PUT /{conversation_id}/summarize, for a user with an auth token and a
\* summarization model that answers with a title
Summarize(request) ==
    /\ e_pc = "idle"
    /\ e_pc' = "answered"
    /\ e_request' = request
    /\ \E loop \in {SummarizeLoop(request.messages, 1, <<>>)} :
          IF ~FindOwned(conversations, request.conversation_id, user.id)
          THEN /\ e_response' = Response(404, "Conversation not found or access denied")
               /\ UNCHANGED <<e_upstream, conversations, touched>>
          ELSE IF request.messages = <<>>
          THEN /\ e_response' = Response(400, "No messages provided for summarization")
               /\ UNCHANGED <<e_upstream, conversations, touched>>
          ELSE IF ~loop.ok
          THEN /\ e_response' = Response(400, str(str(loop.err)))
               /\ UNCHANGED <<e_upstream, conversations, touched>>
          ELSE IF loop.val = <<>>
          THEN /\ e_response' = Response(400, "Could not decrypt any messages for summarization")
               /\ UNCHANGED <<e_upstream, conversations, touched>>
          ELSE /\ e_upstream' = Append(e_upstream, loop.val)
               /\ conversations' = conversations \cup {request.conversation_id}
               /\ touched' = touched + 1
               /\ e_response' = Response(200, "title")
    /\ UNCHANGED <<pc, args, accumulated_content, has_content, received, upstream_end,
                   emitted, propagated, tasks, messages, next_id, user, u_log, d_run, t_run,
                   cipherVars, serverVars>>

NextEndpoints ==
    \/ e_pc = "idle" /\ \E request \in ChatRequests, draw \in Draws :
                            Chat(request, draw[1], draw[2])
    \/ e_pc = "idle" /\ \E request \in SummarizeRequests : Summarize(request)

SpecEndpoints == Init /\ [][NextEndpoints]_vars

-----------------------------------------------------------------------------
(* POST of the user's Ed25519 public key (api/users.py)                    *)

\* the public_key_base64 values explored: two keys of the right length, a
\* short one, a long one, the empty string and text that is not base64
KeyUploads ==
    {b64encode([i \in 1..Ed25519KeyLen |-> 7]),
     b64encode([i \in 1..Ed25519KeyLen |-> (9 * i) % 256]),
     b64encode([i \in 1..(Ed25519KeyLen - 1) |-> 7]),
     b64encode([i \in 1..(Ed25519KeyLen + 1) |-> 7]),
     <<>>,
     <<1>>}

\* the try block of upload_ed25519_public_key: the user document after the
\* call, or the exception raised (the key_version update is commented out)
StoreKey(current_user, public_key_base64) ==
    LET key_bytes == b64decode(public_key_base64)
    IN IF ~key_bytes.ok THEN key_bytes
       ELSE IF Len(key_bytes.val) # Ed25519KeyLen
       THEN Raise("ValueError: Decoded public key must be 32 bytes long.")
       ELSE Ok([current_user EXCEPT !.ed25519_public_key = public_key_base64])

\* upload_ed25519_public_key for the authenticated user: the document is
\* saved on success, every exception is answered with a 500
UploadKey(public_key_base64) ==
    /\ Len(u_log) < MaxUploads
    /\ \E stored \in {StoreKey(user, public_key_base64)} :
          /\ user' = IF stored.ok THEN stored.val ELSE user
          /\ u_log' = Append(u_log,
                [public_key_base64 |-> public_key_base64,
                 before |-> user,
                 after |-> IF stored.ok THEN stored.val ELSE user,
                 response |-> IF stored.ok
                              THEN Response(200, "Ed25519 public key stored successfully")
                              ELSE Response(500, "Internal server error while storing public key.")])
    /\ UNCHANGED <<e_pc, e_request, e_response, e_upstream, d_run, t_run, relayVars, cipherVars,
                   serverVars>>

NextUploads == \E public_key_base64 \in KeyUploads : UploadKey(public_key_base64)

SpecUploads == Init /\ [][NextUploads]_vars

-----------------------------------------------------------------------------
(* Key upload followed by a chat request of the same user                  *)

\* chat requests with one user message the server can decrypt
PingRequests ==
    [endpoint : {"chat"},
     messages : {<<RequestMessage("user", TRUE, [cause |-> "none", data |-> Sent(Hel)])>>},
     stream : BOOLEAN,
     conversation_id : {None, "c1"}]

NextEndToEnd ==
    \/ \E public_key_base64 \in KeyUploads : UploadKey(public_key_base64)
    \/ e_pc = "idle" /\ \E request \in PingRequests, draw \in Draws :
          Chat(request, draw[1], draw[2])

SpecEndToEnd == Init /\ [][NextEndToEnd]_vars

-----------------------------------------------------------------------------
(* ServerEncryption.__init__ and the calls made on the singleton           *)

\* the key pairs generation can give, and a key file can hold
GeneratedKeyIds == {ServerKeyId, FreshKeyId}

\* __init__ before _initialize_keys: both attributes None
Unloaded == [private_key |-> NoKeyId, public_key |-> NoKeyId]

\* what the keys directory can hold at start: each file absent or present
KeyFileStates ==
    [private : GeneratedKeyIds \cup {NoKeyId}, public : GeneratedKeyIds \cup {NoKeyId}]

\* a slip: a new key pair is generated whatever the directory holds
initialize_keys_AlwaysGenerate(files, generated) ==
    [self |-> [private_key |-> generated, public_key |-> generated],
     files |-> [private |-> generated, public |-> generated]]

\* _initialize_keys: load both files when both exist, otherwise generate a
\* key pair and write both files
initialize_keys(files, generated) ==
    IF files.private # NoKeyId /\ files.public # NoKeyId
    THEN [self |-> [private_key |-> files.private, public_key |-> files.public],
          files |-> files]
    ELSE [self |-> [private_key |-> generated, public_key |-> generated],
          files |-> [private |-> generated, public |-> generated]]

\* the module is imported with some content of the keys directory
InitKeys ==
    /\ RelayInit
    /\ CipherIdle
    /\ EndpointIdle
    /\ keys = Unloaded
    /\ key_files \in KeyFileStates
    /\ k_log = <<>>

\* server_encryption = ServerEncryption()
InitializeKeys(generated) ==
    /\ keys = Unloaded
    /\ \E r \in {initialize_keys(key_files, generated)} :
          /\ keys' = r.self
          /\ key_files' = r.files
    /\ UNCHANGED <<k_log, relayVars, cipherVars, endpointVars>>

\* get_public_key_pem(): reads _public_key
PublicKeyRequest ==
    /\ keys # Unloaded
    /\ Len(k_log) < MaxRequests
    /\ k_log' = Append(k_log, [op |-> "get_public_key_pem",
                               res |-> Ok(RsaPem(keys.public_key))])
    /\ UNCHANGED <<keys, key_files, relayVars, cipherVars, endpointVars>>

\* encrypt_for_client(message, client_public_key_pem): reads no attribute
EncryptRequest(message, client_public_key_pem, key_seed, iv_seed) ==
    /\ keys # Unloaded
    /\ Len(k_log) < MaxRequests
    /\ k_log' = Append(k_log,
                  [op |-> "encrypt_for_client",
                   res |-> encrypt_for_client(message, client_public_key_pem,
                                              key_seed, iv_seed)])
    /\ UNCHANGED <<keys, key_files, relayVars, cipherVars, endpointVars>>

\* decrypt_from_client(encrypted_data): reads _private_key
DecryptRequest(encrypted_data) ==
    /\ keys # Unloaded
    /\ Len(k_log) < MaxRequests
    /\ k_log' = Append(k_log,
                  [op |-> "decrypt_from_client",
                   res |-> DecryptWith(keys.private_key, encrypted_data)])
    /\ UNCHANGED <<keys, key_files, relayVars, cipherVars, endpointVars>>

\* envelopes a client made with a public key it fetched earlier
ForServer ==
    {encrypt_for_client(Hel, RsaPem(k), 11, 200).val : k \in GeneratedKeyIds}

NextKeys ==
    \/ \E generated \in GeneratedKeyIds : InitializeKeys(generated)
    \/ PublicKeyRequest
    \/ keys # Unloaded /\ \E draw \in Draws :
          EncryptRequest(lo, RsaPem(ClientKeyId), draw[1], draw[2])
    \/ keys # Unloaded /\ \E encrypted_data \in ForServer : DecryptRequest(encrypted_data)

SpecKeys == InitKeys /\ [][NextKeys]_vars

-----------------------------------------------------------------------------
(* The conversation endpoints, for two users (api/conversations.py,        *)
(* models/conversation.py)                                                 *)

\* the request of a handler that takes current_user and a conversation id
Request(endpoint, current_user, conversation_id) ==
    [endpoint |-> endpoint, current_user |-> current_user,
     conversation_id |-> conversation_id, messages |-> <<>>, stream |-> FALSE]

\* the user message u2 stored in conversation "c2"
StoredUserMessage2 ==
    [StoredUserMessage EXCEPT !.id = 2, !.conversation_id = "c2", !.user = "u2"]

\* no stream in progress, none started yet or one that ended without
\* content; each user has a conversation with one user message in it
InitConversations ==
    /\ \/ pc = "idle" /\ args = NoCall /\ upstream_end = "open"
       \/ pc = "done" /\ args = Call("c1", RsaPem(ClientKeyId), 1, TRUE)
                      /\ upstream_end = "exhausted"
    /\ accumulated_content = <<>>
    /\ has_content = FALSE
    /\ received = <<>>
    /\ emitted = <<>>
    /\ propagated = None
    /\ tasks = <<>>
    /\ messages = {StoredUserMessage, StoredUserMessage2}
    /\ conversations = {"c1", "c2"}
    /\ touched = 0
    /\ next_id = 3
    /\ CipherIdle
    /\ EndpointIdle
    /\ ServerReady

\* GET /{conversation_id} and GET /{conversation_id}/get_messages: the
\* lookup under the owner filter, a 404 if it finds nothing, else the data
Read(endpoint, current_user, conversation_id) ==
    /\ e_pc = "idle"
    /\ e_pc' = "answered"
    /\ e_request' = Request(endpoint, current_user, conversation_id)
    /\ e_response' = IF FindOwned(conversations, conversation_id, current_user)
                     THEN Response(200, endpoint)
                     ELSE Response(404, "Conversation not found")
    /\ UNCHANGED <<e_upstream, user, u_log, d_run, t_run, relayVars, cipherVars,
                   serverVars>>

GetConversation(current_user, conversation_id) ==
    Read("get_conversation", current_user, conversation_id)

GetConversationMessages(current_user, conversation_id) ==
    Read("get_messages", current_user, conversation_id)

\* PUT /{conversation_id}/update_title
UpdateConversationTitle(current_user, conversation_id) ==
    /\ e_pc = "idle"
    /\ e_pc' = "answered"
    /\ e_request' = Request("update_title", current_user, conversation_id)
    /\ IF FindOwned(conversations, conversation_id, current_user)
       THEN /\ conversations' = conversations \cup {conversation_id}
            /\ touched' = touched + 1
            /\ e_response' = Response(200, "update_title")
       ELSE /\ e_response' = Response(404, "Conversation not found")
            /\ UNCHANGED <<conversations, touched>>
    /\ UNCHANGED <<pc, args, accumulated_content, has_content, received, upstream_end,
                   emitted, propagated, tasks, messages, next_id,
                   e_upstream, user, u_log, d_run, t_run, cipherVars, serverVars>>

\* MessageRequest bodies: a role, a parent_id that is absent, stored or
\* unknown, with or without a model_id
MessageRequests ==
    [role : {"user", "assistant", "system"}, parent_id : {NoId, 1, 9},
     model_id : {None, "gpt"}]

\* Message(**fields): user is a field without a default (models/message.py)
Message(fields) ==
    IF "user" \in DOMAIN fields THEN Ok(fields)
    ELSE Raise("1 validation error for Message user Field required")

\* the document add_message constructs: no user among its arguments
NewMessage(role, conversation_id, parent_message_id, model_id) ==
    Message([role |-> role, conversation_id |-> conversation_id,
             parent_message_id |-> parent_message_id, model_id |-> model_id])

\* the most recent user message of the conversation, or None
MostRecentUserMessage(store, conversation_id) ==
    LET ids == {m.id : m \in {x \in store : x.conversation_id = conversation_id
                                              /\ x.role = "user"}}
    IN IF ids = {} THEN NoId ELSE CHOOSE i \in ids : \A j \in ids : j <= i

\* add_message up to its response: the response and the document to store
AddMessageOutcome(current_user, conversation_id, message_data, store, stored) ==
    IF conversation_id \notin store
    THEN [response |-> Response(500, "Server error: 404: Conversation not found"),
          message |-> Raise("")]
    ELSE IF OwnerOf(conversation_id) # current_user
    THEN [response |-> Response(500,
                         "Server error: 403: You don't have access to this conversation"),
          message |-> Raise("")]
    ELSE IF /\ message_data.parent_id # NoId
            /\ ~\E m \in stored : /\ m.id = message_data.parent_id
                                  /\ m.conversation_id = conversation_id
    THEN [response |-> Response(400, "Parent message not found"), message |-> Raise("")]
    ELSE IF message_data.role \notin {"user", "assistant"}
    THEN [response |-> Response(400, "Invalid message role. Must be 'user' or 'assistant'"),
          message |-> Raise("")]
    ELSE IF message_data.role = "assistant" /\ message_data.model_id = None
    THEN [response |-> Response(400, "model_id is required for assistant messages"),
          message |-> Raise("")]
    ELSE LET parent_message_id ==
                 IF message_data.role = "assistant" /\ message_data.parent_id = NoId
                 THEN MostRecentUserMessage(stored, conversation_id)
                 ELSE message_data.parent_id
             message == NewMessage(message_data.role, conversation_id, parent_message_id,
                                   IF message_data.role = "assistant"
                                   THEN message_data.model_id ELSE None)
         IN IF message.ok
            THEN [response |-> Response(200, "add_message"), message |-> message]
            ELSE [response |-> Response(500, "Server error adding message: " \o message.err),
                  message |-> message]

\* POST /{conversation_id}/add_message
AddMessage(current_user, conversation_id, message_data) ==
    /\ e_pc = "idle"
    /\ e_pc' = "answered"
    /\ e_request' = Request("add_message", current_user, conversation_id)
    /\ \E r \in {AddMessageOutcome(current_user, conversation_id, message_data,
                                   conversations, messages)} :
          /\ e_response' = r.response
          /\ IF r.message.ok
             THEN /\ messages' = messages \cup {[id |-> next_id] @@ r.message.val}
                  /\ next_id' = next_id + 1
                  /\ conversations' = conversations \cup {conversation_id}
                  /\ touched' = touched + 1
             ELSE UNCHANGED <<messages, next_id, conversations, touched>>
    /\ UNCHANGED <<pc, args, accumulated_content, has_content, received, upstream_end,
                   emitted, propagated, tasks,
                   e_upstream, user, u_log, d_run, t_run, cipherVars, serverVars>>

\* GET /{conversation_id}/thread/{message_id} up to its second await: the
\* lookup under the owner filter, a 404 if it finds nothing
GetMessageThread(current_user, conversation_id, message_id) ==
    /\ t_run.pc = "idle"
    /\ t_run' = [NoThread EXCEPT !.current_user = current_user,
                                 !.conversation_id = conversation_id,
                                 !.message_id = message_id,
                                 !.pc = IF FindOwned(conversations, conversation_id,
                                                     current_user)
                                        THEN "finding" ELSE "answered",
                                 !.status = IF FindOwned(conversations, conversation_id,
                                                         current_user)
                                            THEN 0 ELSE 404]
    /\ UNCHANGED <<e_pc, e_request, e_response, e_upstream, user, u_log, d_run,
                   relayVars, cipherVars, serverVars>>

\* Message.find_one(Message.id == id, Message.conversation_id == self.id)
FindMessage(store, id, conversation_id) ==
    {m \in store : m.id = id /\ m.conversation_id = conversation_id}

\* a slip: the parent added at the end of the thread
Ancestor_Appended(thread, parent) == Append(thread, parent)

\* thread.insert(0, parent)
Ancestor(thread, parent) == <<parent>> \o thread

\* Conversation.get_message_thread up to its loop: the message is looked up
\* in the conversation; without it the thread is empty and the answer a 404
ThreadFind ==
    /\ t_run.pc = "finding"
    /\ \E found \in {FindMessage(messages, t_run.message_id, t_run.conversation_id)} :
          IF found = {}
          THEN t_run' = [t_run EXCEPT !.pc = "answered", !.status = 404]
          ELSE \E message \in found :
                  t_run' = [t_run EXCEPT !.pc = "looping", !.thread = <<message>>,
                                         !.current_id = message.parent_message_id]
    /\ UNCHANGED <<e_pc, e_request, e_response, e_upstream, user, u_log, d_run,
                   relayVars, cipherVars, serverVars>>

\* one pass of "while current_id": the loop ends when current_id is None or
\* names no message of the conversation
ThreadStep ==
    /\ t_run.pc = "looping"
    /\ \E found \in {FindMessage(messages, t_run.current_id, t_run.conversation_id)} :
          IF t_run.current_id = NoId \/ found = {}
          THEN t_run' = [t_run EXCEPT !.pc = "answered", !.status = 200]
          ELSE \E parent \in found :
                  t_run' = [t_run EXCEPT !.thread = Ancestor(t_run.thread, parent),
                                         !.current_id = parent.parent_message_id]
    /\ UNCHANGED <<e_pc, e_request, e_response, e_upstream, user, u_log, d_run,
                   relayVars, cipherVars, serverVars>>

\* the conversations requests name
ConversationIds == {"c1", "c2"}

\* the message ids thread requests name: the stored user messages, the first
\* saved reply and an unknown one
ThreadIds == {1, 2, 3, 9}

\* no request is being handled
Quiet == e_pc = "idle" /\ d_run.pc = "idle" /\ t_run.pc = "idle"

\* chat-generate and summarize bodies with one message the server can decrypt
OwnedRequests ==
    [endpoint : {"chat", "summarize"},
     messages : {<<RequestMessage("user", TRUE, [cause |-> "none", data |-> Sent(Hel)])>>},
     stream : {FALSE},
     conversation_id : ConversationIds]

\* the background saves explored: a reply for either conversation
OwnedSaves ==
    {[conversation_id |-> conv, model_name |-> "gpt", full_content |-> Hel,
      user_public_key |-> RsaPem(ClientKeyId)] : conv \in ConversationIds}

NextConversations ==
    \/ Quiet /\ \E current_user \in Users, conversation_id \in ConversationIds :
          \/ GetConversation(current_user, conversation_id)
          \/ GetConversationMessages(current_user, conversation_id)
          \/ UpdateConversationTitle(current_user, conversation_id)
          \/ \E message_data \in MessageRequests :
                AddMessage(current_user, conversation_id, message_data)
    \/ Quiet /\ \E request \in OwnedRequests, draw \in Draws :
          \/ request.endpoint = "chat" /\ Chat(request, draw[1], draw[2])
          \/ request.endpoint = "summarize" /\ Summarize(request)
    \/ e_pc = "idle" /\ \E current_user \in Users, conversation_id \in ConversationIds :
          \/ DeleteConversation(current_user, conversation_id)
          \/ \E message_id \in ThreadIds :
                GetMessageThread(current_user, conversation_id, message_id)
    \/ DeleteDocument
    \/ ThreadFind
    \/ ThreadStep
    \/ \E call \in OwnedSaves :
          \E m \in {x \in messages : /\ x.role = "user"
                                     /\ x.conversation_id = call.conversation_id} :
             ScheduleSave(call, m.id)
    \/ SaveFetch
    \/ \E draw \in Draws : SaveMessage(draw[1], draw[2])
    \/ SaveTouch

SpecConversations == InitConversations /\ [][NextConversations]_vars

\* every awaited lookup of get_message_thread returns
FairConversations ==
    SpecConversations /\ WF_vars(ThreadFind) /\ WF_vars(ThreadStep)

-----------------------------------------------------------------------------
(* What the upstream delivered, read off the chunks themselves *)

\* the delta a chunk carries: its content when it has choices, a delta and text
DeltaOf(chunk) ==
    IF chunk.choices /\ chunk.has_delta /\ ~chunk.content_none THEN chunk.content ELSE <<>>

\* the non-empty deltas of a chunk sequence, in arrival order
RECURSIVE Deltas(_)
Deltas(cs) ==
    IF cs = <<>> THEN <<>>
    ELSE IF DeltaOf(Head(cs)) = <<>> THEN Deltas(Tail(cs))
    ELSE <<DeltaOf(Head(cs))>> \o Deltas(Tail(cs))

RECURSIVE Concat(_)
Concat(ds) == IF ds = <<>> THEN <<>> ELSE Head(ds) \o Concat(Tail(ds))

\* what the client reads in a unit or a stored message with its private key
ClientReads(m) == DecryptWith(ClientKeyId, EnvelopeOf(m))

AssistantMessages == {m \in messages : m.role = "assistant"}

\* the call named a conversation, a saved user message, a model and a task queue
HasTarget ==
    /\ args.conversation # None
    /\ args.user_message_id # NoId
    /\ args.model_name # None
    /\ args.background_tasks

-----------------------------------------------------------------------------
(* Claims *)

\* C1: when the relay completes normally, the accumulated plaintext is the
\* concatenation of the deltas received, in arrival order, and the number of
\* encrypted units emitted is the number of chunks with a non-empty delta.
C1_Accumulation ==
    pc = "done" =>
        /\ accumulated_content = Concat(Deltas(received))
        /\ Len(emitted) = Len(Deltas(received))

C1_Witness ==
    /\ pc = "done"
    /\ received = <<HelChunk, EmptyDelta, LoChunk>>
    /\ accumulated_content = Hel \o lo
    /\ Len(emitted) = 2

\* C2: if the upstream raises after at least one content chunk was emitted,
\* the partial accumulated plaintext is handed to the persistence sink: a
\* save of the concatenation of the deltas received is scheduled (here for a
\* call that named a conversation, a user message, a model and a task queue).
C2_PartialHandedToSink ==
    (upstream_end = "raised" /\ Len(emitted) >= 1 /\ HasTarget) =>
        \E i \in 1..Len(tasks) : tasks[i].full_content = Concat(Deltas(received))

\* C3: if the upstream raises after at least one content chunk was emitted,
\* one terminal unit follows the content units and the output sequence ends
\* normally, with no exception leaving the generator.
C3_CleanEndAfterFailure ==
    (upstream_end = "raised" /\ Len(emitted) >= 1) =>
        /\ pc = "done"
        /\ propagated = None
        /\ Len(emitted) = Len(Deltas(received)) + 1

\* C4: a stream_wrapper invocation schedules the save at most once, and the
\* scheduled saves create at most one message record each.
C4_AtMostOneStoredMessage ==
    /\ Len(tasks) <= 1
    /\ Cardinality(AssistantMessages) <= Len(tasks)

C4_Witness ==
    /\ Len(tasks) = 1
    /\ tasks[1].state = "finished"
    /\ Cardinality(AssistantMessages) = 1

\* C5 as stated: whenever the upstream is exhausted after at least one content
\* chunk, a commit of the full accumulated plaintext is scheduled.
C5_AlwaysScheduled ==
    (pc = "done" /\ Len(Deltas(received)) >= 1) =>
        /\ Len(tasks) = 1
        /\ tasks[1].full_content = accumulated_content

\* C5, amended: whenever the upstream is exhausted after at least one content
\* chunk, the relay completes normally, and if it was called with a
\* conversation, a saved user message id, a model name and a task queue, a
\* commit of the full accumulated plaintext is scheduled; without one of
\* them no commit is scheduled.
C5_ScheduledWhenTargetGiven ==
    (upstream_end = "exhausted" /\ Len(Deltas(received)) >= 1) =>
        /\ pc = "done"
        /\ propagated = None
        /\ HasTarget =>
              /\ Len(tasks) = 1
              /\ tasks[1].full_content = Concat(Deltas(received))
        /\ ~HasTarget => tasks = <<>>

C5_Witness ==
    /\ upstream_end = "exhausted"
    /\ HasTarget
    /\ Len(Deltas(received)) = 2
    /\ Len(tasks) = 1
    /\ tasks[1].state = "queued"

\* C6: a session that received no content chunk schedules no save and stores
\* no message, whether the upstream is exhausted or raises; when the upstream
\* is exhausted the output ends with no unit emitted.
C6_NoContentNothingStored ==
    Len(Deltas(received)) = 0 =>
        /\ tasks = <<>>
        /\ AssistantMessages = {}
        /\ emitted = <<>>
        /\ (upstream_end = "exhausted" => pc = "done" /\ propagated = None)

C6_Witness ==
    /\ upstream_end = "exhausted"
    /\ pc = "done"
    /\ HasTarget
    /\ received = <<EmptyDelta, FinishOnly>>

\* C7: if the upstream raises before any chunk was emitted, exactly one unit
\* reaches the client, an error unit that is not a content unit.
C7_OneErrorUnit ==
    (upstream_end = "raised" /\ Len(Deltas(received)) = 0) =>
        /\ Len(emitted) = 1
        /\ ~emitted[1].is_encrypted

\* C8: the i-th unit emitted carries the i-th non-empty delta received: no
\* reordering, and no unit that merges several deltas.
C8_EmittedInArrivalOrder ==
    /\ Len(emitted) <= Len(Deltas(received))
    /\ \A i \in 1..Len(emitted) : ClientReads(emitted[i]) = Ok(Deltas(received)[i])

C8_Witness ==
    /\ Len(emitted) = 3
    /\ Deltas(received) = <<lo, Hel, lo>>

\* C9: whenever the relay is about to pull the next chunk, every content
\* chunk received so far has its unit emitted already, and the latest unit
\* encrypts that chunk's delta alone.
C9_NoBuffering ==
    pc = "awaiting" =>
        /\ Len(emitted) = Len(Deltas(received))
        /\ emitted # <<>> =>
              ClientReads(emitted[Len(emitted)]) = Ok(Deltas(received)[Len(emitted)])

C9_Witness ==
    /\ pc = "awaiting"
    /\ Len(emitted) = 2
    /\ accumulated_content = Hel \o lo
    /\ Len(received) = 2

\* C10: an envelope that encrypt_for_client produced for the public key of a
\* key pair decrypts, with that pair's private key, to exactly the plaintext.
C10_RoundTrip ==
    (c_pc = "decrypted" /\ c_in.recipient = RsaPem(c_out.key)) =>
        /\ c_out.res.ok
        /\ c_out.res.val = c_in.plaintext

C10_Witness ==
    /\ c_pc = "decrypted"
    /\ c_out.key = ServerKeyId
    /\ c_in.recipient = RsaPem(ServerKeyId)
    /\ c_in.plaintext = <<72, 8364>>
    /\ c_out.res = Ok(<<72, 8364>>)

\* C11: when a bit of the ciphertext or of the tag of an envelope produced by
\* encrypt_for_client is flipped, or a byte is cut off or added, decryption
\* fails with the decryption error (a ValueError); and a decryption that
\* returns at all returns exactly the plaintext that was encrypted.
C11_TamperDetected ==
    c_pc = "decrypted" =>
        /\ c_tamper # NoTamper => ~c_out.res.ok
        /\ ~c_out.res.ok => SubSeq(c_out.res.err, 1, 39) = "ValueError: Failed to decrypt message: "
        /\ c_out.res.ok => c_out.res.val = c_in.plaintext

C11_Witness ==
    /\ c_pc = "decrypted"
    /\ c_in.plaintext = Hel
    /\ c_in.recipient = RsaPem(ServerKeyId)
    /\ c_out.key = ServerKeyId
    /\ c_tamper = [field |-> "encrypted_content", kind |-> "flip", pos |-> 2, bit |-> 7]
    /\ c_out.res = Raise("ValueError: Failed to decrypt message: ")

\* C12: decrypting an envelope with the private key of a key pair other than
\* the one whose public key wrapped its symmetric key fails with the
\* decryption error and returns no plaintext.
C12_KeyMismatch ==
    (c_pc = "decrypted" /\ c_in.recipient # RsaPem(c_out.key)) =>
        /\ ~c_out.res.ok
        /\ c_out.res.val = <<>>
        /\ SubSeq(c_out.res.err, 1, 39) = "ValueError: Failed to decrypt message: "

C12_Witness ==
    /\ c_pc = "decrypted"
    /\ c_in.plaintext = <<112, 105, 110, 103>>
    /\ c_in.recipient = RsaPem(ClientKeyId)
    /\ c_out.key = ServerKeyId
    /\ c_out.res = Raise("ValueError: Failed to decrypt message: Failed to decrypt AES key: Decryption failed")

\* pairs of calls that both returned an envelope
EnvelopePairs ==
    {p \in (1..Len(c_log)) \X (1..Len(c_log)) :
        p[1] < p[2] /\ c_log[p[1]].res.ok /\ c_log[p[2]].res.ok}

C14_FailuresIndistinguishable ==
    \A i, j \in 1..Len(c_calls) :
        (~c_calls[i].res.ok /\ ~c_calls[j].res.ok) => c_calls[i].res = c_calls[j].res

\* a request message that lacks one of the four envelope fields
LacksField(msg) == \E f \in EnvelopeFields : f \notin DOMAIN msg.data

\* C15: a chat-generate or summarize request with a message that lacks one of
\* the four envelope fields fails with a 400 and no generation call is made;
\* the message is never skipped.
C15_MissingFieldIsFatal ==
    (e_pc = "answered" /\ \E i \in 1..Len(e_request.messages) :
                             LacksField(e_request.messages[i])) =>
        /\ e_response.status = 400
        /\ e_upstream = <<>>

\* C16: a chat request with a message that cannot be decrypted is answered
\* with a 400 and has no effect: no generation call, no message saved, no
\* save scheduled, no stream started.
C16_FailedDecryptionRejects ==
    (/\ e_pc = "answered"
     /\ e_request.endpoint = "chat"
     /\ \E i \in 1..Len(e_request.messages) :
           ~decrypt_from_client(e_request.messages[i].data).ok) =>
        /\ e_response.status = 400
        /\ e_upstream = <<>>
        /\ messages = {StoredUserMessage}
        /\ tasks = <<>>
        /\ pc = "idle"

C16_Witness ==
    /\ e_pc = "answered"
    /\ e_request.endpoint = "chat"
    /\ e_request.conversation_id = "c1"
    /\ ~e_request.stream
    /\ Len(e_request.messages) = 2
    /\ e_request.messages[1] = RequestMessage("user", TRUE, [cause |-> "none", data |-> Sent(Hel)])
    /\ e_request.messages[2].cause = "tag mismatch"
    /\ e_response = Response(400, "Error processing message N/A: 400: Failed to decrypt message N/A")
    /\ e_upstream = <<>>

\* C17: a save_streamed_message call whose key is missing or whose content
\* is empty never stores a message and never lets an exception out; once it
\* has ended, the failure is in the log
C17_SaveFailsSilently ==
    \A i \in 1..Len(tasks) :
        (~Truthy(tasks[i].user_public_key) \/ tasks[i].full_content = <<>>)
            => /\ tasks[i].raised = None
               /\ tasks[i].state \in {"queued", "fetched", "finished"}
               /\ tasks[i].state = "finished" => tasks[i].logged # ""
               /\ ~\E m \in messages :
                     /\ m.role = "assistant"
                     /\ m.parent_message_id = tasks[i].user_message_id

\* both failures have happened: a call without a key and a call with empty
\* content have ended
C17_Witness ==
    /\ \E i \in 1..Len(tasks) :
          /\ ~Truthy(tasks[i].user_public_key)
          /\ tasks[i].full_content # <<>>
          /\ tasks[i].state = "finished"
          /\ tasks[i].logged = "ValueError: Missing user public key for saving"
    /\ \E i \in 1..Len(tasks) :
          /\ Truthy(tasks[i].user_public_key)
          /\ tasks[i].full_content = <<>>
          /\ tasks[i].state = "finished"
          /\ tasks[i].logged = "ValueError: Empty content provided for saving"
    /\ Cardinality(messages) = 1

\* the chunk is one the loop encrypts: it has choices, no error and content
IsContentChunk(chunk) == chunk.choices /\ ~chunk.error /\ ~Skipped(chunk)

\* C18: when the encryption of a content chunk fails although a recipient
\* key is present, that chunk is dropped and the stream is not aborted
C18_FailedChunkIsDropped ==
    (/\ Truthy(args.user_public_key)
     /\ received # <<>>
     /\ IsContentChunk(received[Len(received)])
     /\ \A draw \in Draws :
           ~encrypt_for_client(ContentOf(received[Len(received)]),
                               args.user_public_key, draw[1], draw[2]).ok)
        => /\ pc \in {"awaiting", "done", "closed"}
           /\ propagated = None

\* C19: a session started without a recipient key never emits a unit and
\* never stores a message; its first content chunk ends it with an error
C19_MissingKeyIsFatal ==
    (pc # "idle" /\ args.user_public_key = NoKey)
        => /\ emitted = <<>>
           /\ tasks = <<>>
           /\ messages = {StoredUserMessage}
           /\ accumulated_content # <<>>
                 => /\ pc = "raised"
                    /\ propagated = "ValueError: Cannot stream without encryption key"

\* a session without a key has received content after a chunk it skipped
C19_Witness ==
    /\ args.user_public_key = NoKey
    /\ Len(received) >= 2
    /\ IsContentChunk(received[Len(received)])
    /\ pc = "raised"
    /\ propagated = "ValueError: Cannot stream without encryption key"
    /\ emitted = <<>>

\* C20: the key version never decreases, and every upload that replaces a
\* stored key leaves the key version one higher than it was
C20_KeyVersionIncrements ==
    \A i \in 1..Len(u_log) :
        /\ u_log[i].after.key_version >= u_log[i].before.key_version
        /\ (/\ u_log[i].response.status = 200
            /\ \E j \in 1..(i - 1) : u_log[j].response.status = 200)
              => u_log[i].after.key_version = u_log[i].before.key_version + 1

\* C21: the key pair is set once, by the initialization (the two files'
\* content when both exist, otherwise one generated pair which is written to
\* both files), and no later call changes it
C21_KeyPairSetOnce ==
    [][/\ keys # Unloaded => keys' = keys
       /\ (keys = Unloaded /\ keys' # Unloaded)
            => IF key_files.private # NoKeyId /\ key_files.public # NoKeyId
               THEN /\ keys' = [private_key |-> key_files.private,
                                public_key |-> key_files.public]
                    /\ key_files' = key_files
               ELSE /\ keys'.private_key = keys'.public_key
                    /\ key_files' = [private |-> keys'.private_key,
                                     public |-> keys'.public_key]]_vars

\* a key pair loaded from disk has served a public-key request, an
\* encryption and a successful decryption
C21_Witness ==
    /\ keys = [private_key |-> FreshKeyId, public_key |-> FreshKeyId]
    /\ key_files = [private |-> FreshKeyId, public |-> FreshKeyId]
    /\ \E i \in 1..Len(k_log) : k_log[i].op = "get_public_key_pem"
    /\ \E i \in 1..Len(k_log) : k_log[i].op = "encrypt_for_client" /\ k_log[i].res.ok
    /\ \E i \in 1..Len(k_log) :
          /\ k_log[i].op = "decrypt_from_client"
          /\ k_log[i].res = Ok(Hel)

\* C22: a stored message stays in the store: the user message stored before
\* the stream, and the assistant message of every save that ran to its end
C22_StoredMessagesDurable ==
    /\ StoredUserMessage \in messages
    /\ \A i \in 1..Len(tasks) :
          (tasks[i].state = "finished" /\ tasks[i].logged = "")
              => \E m \in messages :
                    /\ m.role = "assistant"
                    /\ m.parent_message_id = tasks[i].user_message_id

\* C23: once the user has uploaded a public key, a chat request whose
\* message decrypts is answered with a reply encrypted for the stored key: a
\* stream started with a key the cipher accepts, or an encrypted completion
C23_UploadedKeyEncryptsReplies ==
    (/\ \E i \in 1..Len(u_log) : u_log[i].response.status = 200
     /\ e_pc = "answered"
     /\ e_request.endpoint = "chat")
        => /\ e_response.status = 200
           /\ e_request.stream
                 => /\ pc # "idle"
                    /\ encrypt_for_client(<<112, 105, 110, 103>>, args.user_public_key,
                                          11, 200).ok
           /\ ~e_request.stream => e_response.detail = "is_encrypted: True"

\* the step's chunk: the one the step appended to received
Arrived(after) == after[Len(after)]

\* C24 as stated: a chunk without a usable content delta changes neither the
\* accumulated text nor the emitted units, and does not end the stream
C24_NoDeltaChunkLeavesSession ==
    [][(received' # received /\ DeltaOf(Arrived(received')) = <<>>)
          => /\ accumulated_content' = accumulated_content
             /\ emitted' = emitted
             /\ pc' = pc]_vars

\* C24: a chunk without a usable content delta that reports no error (it
\* has no choices, or its error is not set) changes neither the accumulated
\* text nor the emitted units, schedules nothing and does not end the stream
C24_NoDeltaNoErrorChunkLeavesSession ==
    [][(/\ received' # received
        /\ DeltaOf(Arrived(received')) = <<>>
        /\ ~(Arrived(received').choices /\ Arrived(received').error))
          => /\ accumulated_content' = accumulated_content
             /\ has_content' = has_content
             /\ emitted' = emitted
             /\ tasks' = tasks
             /\ pc' = pc
             /\ propagated' = propagated]_vars

\* a finish-only chunk has arrived after a unit was emitted, and the relay
\* still waits for the next chunk with the text and the units it had
C24_Witness ==
    /\ Len(received) = 2
    /\ received[1] = HelChunk
    /\ received[2] = FinishOnly
    /\ pc = "awaiting"
    /\ accumulated_content = Hel
    /\ Len(emitted) = 1

\* C25: every envelope carries a 32-byte symmetric key (as the recipient
\* unwraps it), a 12-byte initialization vector and a 16-byte tag
C25_EnvelopeSizes ==
    (c_pc # "init" /\ c_env.ok)
        => /\ Len(rsa_decrypt(c_in.recipient.id,
                              b64decode(c_env.val.encrypted_key).val).val) = 32
           /\ Len(b64decode(c_env.val.iv).val) = 12
           /\ Len(b64decode(c_env.val.tag).val) = 16

\* C26: a save is scheduled only for a stream that was given a conversation
\* and the id of a saved user message, and every assistant message in the
\* store has as parent a user message stored in the same conversation
C26_SavedRepliesHaveParent ==
    /\ tasks # <<>> => (args.conversation # None /\ args.user_message_id # NoId)
    /\ \A i \in 1..Len(tasks) :
          /\ tasks[i].conversation_id = args.conversation
          /\ tasks[i].user_message_id = args.user_message_id
    /\ \A m \in messages :
          m.role = "assistant"
              => /\ m.parent_message_id # NoId
                 /\ \E u \in messages :
                       /\ u.role = "user"
                       /\ u.id = m.parent_message_id
                       /\ u.conversation_id = m.conversation_id
                       /\ u.id < m.id

\* the reply of a stream with a conversation and a saved user message is in
\* the store, under that user message
C26_Witness ==
    /\ pc = "done"
    /\ args.conversation = "c1"
    /\ args.user_message_id = StoredUserMessage.id
    /\ Len(tasks) = 1
    /\ tasks[1].state = "finished"
    /\ \E m \in messages :
          /\ m.role = "assistant"
          /\ m.conversation_id = "c1"
          /\ m.parent_message_id = StoredUserMessage.id

\* C27: every stored message belongs to a conversation in the store, and a
\* conversation whose deletion was answered stays deleted, without messages
C27_NoMessageWithoutConversation ==
    /\ \A m \in messages : m.conversation_id \in conversations
    /\ (d_run.pc = "answered" /\ d_run.status = 204)
          => /\ d_run.conversation_id \notin conversations
             /\ \A m \in messages : m.conversation_id # d_run.conversation_id

\* C28: a stream closed by a client disconnect has no save scheduled and
\* stores nothing, and once closed it emits no further unit
C28_DisconnectEndsRelay ==
    [][/\ pc' = "closed" => (tasks' = <<>> /\ messages' = {StoredUserMessage})
       /\ pc = "closed" => (pc' = "closed" /\ emitted' = emitted /\ received' = received)]_vars

\* the client left after a unit of a stream that had everything a save needs
C28_Witness ==
    /\ pc = "closed"
    /\ args = Call("c1", RsaPem(ClientKeyId), 1, TRUE)
    /\ Len(emitted) >= 1
    /\ accumulated_content # <<>>
    /\ tasks = <<>>

\* the user a handled request was made by: chat-generate and summarize
\* requests are those of the user whose document the model carries
Requester(request) ==
    IF "current_user" \in DOMAIN request THEN request.current_user ELSE user.id

\* the conversations, their messages and the saves under way are as before
StoreUntouched ==
    UNCHANGED <<messages, conversations, touched, tasks, next_id, pc, args>>

\* what a step does with the request of a user who does not own the
\* conversation, and with the message a background save stores
IsolatedStep ==
    /\ (/\ e_pc = "idle" /\ e_pc' = "answered"
        /\ e_request'.conversation_id \in ConversationIds
        /\ Requester(e_request') # OwnerOf(e_request'.conversation_id))
          => (e_response'.status >= 400 /\ StoreUntouched)
    /\ (/\ d_run.pc = "idle" /\ d_run'.pc # "idle"
        /\ d_run'.current_user # OwnerOf(d_run'.conversation_id))
          => (d_run'.pc = "answered" /\ d_run'.status = 404 /\ StoreUntouched)
    /\ (/\ t_run.pc = "idle" /\ t_run'.pc # "idle"
        /\ t_run'.current_user # OwnerOf(t_run'.conversation_id))
          => (/\ t_run'.pc = "answered" /\ t_run'.status = 404
              /\ t_run'.thread = <<>> /\ StoreUntouched)
    /\ \A m \in messages' \ messages :
          m.role = "assistant" => m.user = OwnerOf(m.conversation_id)

\* C29: a request on a conversation the requester does not own is answered
\* with an error status and changes neither the conversations nor the
\* messages, whatever the operation: chat-generate, get, get_messages,
\* update_title, summarize, add_message, delete or thread; and an assistant
\* message the background save stores carries the owner of its conversation
C29_ConversationIsolation == [][IsolatedStep]_vars

\* u2 asked to retitle u1's conversation and was refused, and a reply was
\* saved in u2's own conversation
C29_Witness ==
    /\ e_pc = "answered"
    /\ e_request.endpoint = "update_title"
    /\ e_request.current_user = "u2"
    /\ e_request.conversation_id = "c1"
    /\ e_response.status = 404
    /\ \E m \in messages : m.role = "assistant" /\ m.conversation_id = "c2" /\ m.user = "u2"

\* a stored message names as parent a message created before it, or none:
\* no chain of parent links comes back to where it started
ParentsOlder ==
    \A m \in messages : m.parent_message_id = NoId \/ m.parent_message_id < m.id

\* the thread built so far ends with the requested message, each element is
\* the parent of the next and all are of the conversation; a returned thread
\* starts at a message whose parent is absent or not in the conversation
ThreadInOrder ==
    LET thread == t_run.thread
    IN /\ thread # <<>> =>
             /\ thread[Len(thread)].id = t_run.message_id
             /\ \A i \in 1..Len(thread) :
                   thread[i].conversation_id = t_run.conversation_id
             /\ \A i \in 1..(Len(thread) - 1) :
                   thread[i].id = thread[i + 1].parent_message_id
       /\ (t_run.pc = "answered" /\ t_run.status = 200) =>
             /\ thread # <<>>
             /\ \/ thread[1].parent_message_id = NoId
                \/ FindMessage(messages, thread[1].parent_message_id,
                               t_run.conversation_id) = {}

\* the lookup of the requested message: the thread stays empty, and the
\* answer is "Message not found", exactly when the conversation has no
\* message of that id
EmptyWhenAbsent ==
    (t_run.pc = "finding" /\ t_run'.pc # "finding")
        => ((t_run'.thread = <<>> /\ t_run'.pc = "answered" /\ t_run'.status = 404)
               <=> FindMessage(messages, t_run.message_id, t_run.conversation_id) = {})

\* C30: get_message_thread ends on every store the saves, deletes and
\* add_message requests lead to; it returns the chain from the oldest
\* ancestor it can reach to the requested message, each element the parent
\* of the next, and the empty list when the message is not in the
\* conversation
C30_ThreadEndsInOrder ==
    /\ [](ParentsOlder /\ ThreadInOrder)
    /\ [][EmptyWhenAbsent]_vars
    /\ (t_run.pc \in {"finding", "looping"}) ~> (t_run.pc = "answered")

\* the thread of a saved reply was returned: the user message, then the reply
C30_Witness ==
    /\ t_run.pc = "answered"
    /\ t_run.status = 200
    /\ Len(t_run.thread) = 2
    /\ t_run.thread[1].role = "user"
    /\ t_run.thread[2].role = "assistant"

====
